---- MODULE Spec2Model ----
(***************************************************************************)
(* immutable-app: construction of the route tree from the app directories  *)
(* of the registered modules (lib/init.js), and request dispatch through   *)
(* the routers and the presenter (lib/immutable-app-presenter.js).         *)
(*                                                                         *)
(* JavaScript values are tagged pairs <<tag, payload>>:                    *)
(*   "u" undefined, "b" boolean, "s" string / function reference,          *)
(*   "n" generated controller name, "r" relative directory path,           *)
(*   "p" template path, "a" array, "o" plain object.                       *)
(* A plain object is a sequence of <<key, value>> pairs in insertion       *)
(* order, the order in which _.each and _.keys enumerate it.               *)
(***************************************************************************)
EXTENDS Integers, Sequences, FiniteSets, TLC

VARIABLES
    fsys,          \* the registered modules (config.moduleNames order) and their app directories
    next,          \* position of initApp's loop over config.moduleNames
    routes,        \* config.routes: the merged global route tree
    pc,            \* the step of start() and init() that is next, "listening" or "error"
    todo,          \* nodes initRoutes still has to visit, in visiting order
    controller,    \* controller.paths of every node initRoutes has visited
    router,        \* the layers registered on every node's express router
    models,        \* config.models: model register in insertion order
    budget,        \* explicit controller actions the controllers may still define
    response,      \* outcome of the last request
    env,           \* what the environment does: the step that fails, process.env.NO_SYNC
    app,           \* immutableApp.initialized, .server (created or not), .started, and the
                   \* step whose error start() is rejected with
    sync,          \* initModels: the models still to come, the sync() calls made, in flight and resolved
    conf,          \* the configuration set with config(): the global config and the modules' own
    reqs           \* the requests received, and those whose controller method has not settled

vars == <<fsys, next, routes, pc, todo, controller, router, models, budget, response,
          env, app, sync, conf, reqs>>

(***************************************************************************)
(* Bounds of the model.                                                    *)
(***************************************************************************)
MaxModules == 3
MaxFiles == 2
MaxActions == 2
PathLimit == 3
MaxArgs == 2
MaxRequests == 2
MaxUse == 2
MaxStarts == 2
MaxResets == 1
MaxPaths == 4
MaxSpecs == 3

(***************************************************************************)
(* Values.                                                                 *)
(***************************************************************************)
Undefined == <<"u", <<>> >>
Bool(b) == <<"b", b>>
Str(s) == <<"s", s>>
Arr(xs) == <<"a", xs>>
Obj(kvs) == <<"o", kvs>>
EmptyObj == Obj(<<>>)
Tag(v) == v[1]
Val(v) == v[2]

defined(v) == v # Undefined

IndexOf(kvs, k) ==
    IF \E i \in 1..Len(kvs) : kvs[i][1] = k
    THEN CHOOSE i \in 1..Len(kvs) : kvs[i][1] = k
    ELSE 0

Has(o, k) == Tag(o) = "o" /\ IndexOf(Val(o), k) # 0

Get(o, k) == IF Has(o, k) THEN Val(o)[IndexOf(Val(o), k)][2] ELSE Undefined

Put(o, k, v) ==
    IF Has(o, k)
    THEN Obj([Val(o) EXCEPT ![IndexOf(Val(o), k)] = <<k, v>>])
    ELSE Obj(Append(Val(o), <<k, v>>))

Keys(o) == [i \in 1..Len(Val(o)) |-> Val(o)[i][1]]

Delete(o, k) ==
    LET kvs == Val(o)
        i == IndexOf(kvs, k)
    IN  IF i = 0 THEN o
        ELSE Obj([j \in 1..(Len(kvs) - 1) |-> IF j < i THEN kvs[j] ELSE kvs[j + 1]])

IsObjectLike(v) == Tag(v) \in {"o", "a"}

(***************************************************************************)
(* lodash _.merge(object, source): own keys of source in order; a plain    *)
(* object or array source value is merged recursively into the destination *)
(* value, any other value is assigned, undefined never replaces a value.   *)
(* An array is merged index by index like an object keyed 0..n-1.          *)
(***************************************************************************)
RECURSIVE BaseMerge(_, _)
RECURSIVE MergeEntries(_, _, _)

\* an assignment of the source value in place of the recursive merge
AssignDeep(objValue, srcValue) == srcValue

BaseMergeDeep(objValue, srcValue) ==
    IF Tag(srcValue) = "a"
    THEN BaseMerge(IF Tag(objValue) = "a" THEN objValue ELSE Arr(<<>>), srcValue)
    ELSE BaseMerge(IF Tag(objValue) = "o" THEN objValue ELSE EmptyObj, srcValue)

MergeValue(present, objValue, srcValue) ==
    IF IsObjectLike(srcValue) THEN BaseMergeDeep(objValue, srcValue)
    ELSE IF srcValue = Undefined /\ present THEN objValue
    ELSE srcValue

MergeEntries(object, kvs, i) ==
    IF i > Len(kvs) THEN object
    ELSE LET key == kvs[i][1]
         IN  MergeEntries(
                 Put(object, key, MergeValue(Has(object, key), Get(object, key), kvs[i][2])),
                 kvs, i + 1)

\* a concatenation of the two arrays in place of the merge by index
ConcatArrays(o, s) == Arr(o \o s)

MergeArrays(o, s) ==
    Arr([i \in 1..(IF Len(o) > Len(s) THEN Len(o) ELSE Len(s)) |->
            IF i > Len(s) THEN o[i]
            ELSE MergeValue(i <= Len(o), IF i <= Len(o) THEN o[i] ELSE Undefined, s[i])])

BaseMerge(object, source) ==
    IF Tag(source) = "a" THEN MergeArrays(Val(object), Val(source))
    ELSE MergeEntries(object, Val(source), 1)

Merge(object, source) == BaseMerge(object, source)

(***************************************************************************)
(* Route tree nodes.  A tree is the plain object of its root node; the     *)
(* children of a node are the entries of its "routes" object.  A relative  *)
(* path is the sequence of its directory names.                            *)
(***************************************************************************)
RECURSIVE NodeAt(_, _)
NodeAt(tree, rel) ==
    IF rel = <<>> THEN tree
    ELSE NodeAt(Get(Get(tree, "routes"), rel[1]), Tail(rel))

RECURSIVE SetNode(_, _, _)
SetNode(tree, rel, node) ==
    IF rel = <<>> THEN node
    ELSE LET rs == IF Has(tree, "routes") THEN Get(tree, "routes") ELSE EmptyObj
             child == IF Has(rs, rel[1]) THEN Get(rs, rel[1]) ELSE EmptyObj
         IN  Put(tree, "routes", Put(rs, rel[1], SetNode(child, Tail(rel), node)))

\* routeFromRel: the node of rel, created with every missing node on the way
routeFromRel(tree, rel) ==
    IF rel = <<>> THEN Put(tree, "root", Bool(TRUE))
    ELSE SetNode(tree, rel, IF defined(NodeAt(tree, rel)) THEN NodeAt(tree, rel) ELSE EmptyObj)

(***************************************************************************)
(* Files of an app directory.  A file is a controller file or a model file *)
(* with the plain object it exports, or a template file with its name      *)
(* (extension removed) split on the dot.                                   *)
(***************************************************************************)
ControllerFile(export) == [type |-> "controller", export |-> export, parts |-> <<>>]
ModelFile(export) == [type |-> "model", export |-> export, parts |-> <<>>]
TemplateFile(parts) == [type |-> "template", export |-> EmptyObj, parts |-> parts]
Dir(files, dirs) == [files |-> files, dirs |-> dirs]

\* a symbolic link to a directory, in place of a sub-directory: up = 1 is
\* the directory that holds the link, up = 2 its parent, and so on
Link(up) == [files |-> <<>>, dirs |-> <<>>, link |-> up]
IsLink(dir) == "link" \in DOMAIN dir

\* a path fs.readdirSync refuses: the file system resolves no path of
\* more than PathLimit names below the app directory (ENAMETOOLONG, ELOOP)
Unreadable == [files |-> <<>>, dirs |-> <<>>, error |-> TRUE]
ReadError(dir) == "error" \in DOMAIN dir

\* an entry of module.dir.app that is not on the disk: a directory the
\* module has configured, or the default directory base/app
Missing(kind) == [files |-> <<>>, dirs |-> <<>>, missing |-> kind]
IsMissing(dir) == "missing" \in DOMAIN dir

\* getDir(module, 'app'): the default directory is added to the configured
\* ones when fs.statSync finds it, and fs.statSync throws for every
\* directory of the list that does not exist
getDir(configured) ==
    LET dirs == SelectSeq(configured, LAMBDA d : ~(IsMissing(d) /\ d.missing = "default"))
    IN  [err |-> \E i \in 1..Len(dirs) : IsMissing(dirs[i]), dirs |-> dirs]

\* the directory as the file system presents it under the paths that
\* initAppDir builds by appending names: every link is followed, the
\* directory behind it appearing again below the link
RECURSIVE Paths(_, _, _)
Paths(dir, ancestors, depth) ==
    LET chain == Append(ancestors, dir)
        below(sub) ==
            IF depth >= PathLimit THEN Unreadable
            ELSE IF IsLink(sub)
            THEN Paths(chain[Len(chain) - sub.link + 1],
                       SubSeq(chain, 1, Len(chain) - sub.link), depth + 1)
            ELSE Paths(sub, chain, depth + 1)
    IN  Dir(dir.files, [i \in 1..Len(dir.dirs) |-> <<dir.dirs[i][1], below(dir.dirs[i][2])>>])

\* (rel.length ? rel+'/' : '') + file
TemplatePath(rel, parts) == <<"p", <<rel, parts>> >>

\* a template name used as a template reference is the path '' + name
NameRef(name) == TemplatePath(<<>>, <<name>>)

\* the template path that is the empty string: the file '.hbs' of the app
\* directory itself
EmptyPath == TemplatePath(<<>>, <<"">>)

\* the property key a template reference selects in route.templates: the
\* name itself for a bare name, no template name for anything else, an
\* undefined reference being the key 'undefined'
NoName == "undefined"
KeyOf(ref) ==
    IF Tag(ref) = "p" /\ Val(ref)[1] = <<>> /\ Len(Val(ref)[2]) = 1
    THEN Val(ref)[2][1]
    ELSE NoName

\* changeCase.camelCase(module.name) + changeCase.pascalCase(rel or 'Index')
DefaultName(moduleName, rel) == <<"n", <<moduleName, rel>> >>
RelPath(rel) == <<"r", rel>>

\* the template branch of initAppDir's loop over the files of a directory
\* every number of parts taken for a valid file name
AnyParts(parts) == TRUE

\* fileParts.length === 1 or fileParts.length === 2
ValidParts(parts) == Len(parts) \in {1, 2}

AddTemplate(acc, rel, parts) ==
    LET templatePath == TemplatePath(rel, parts)
        name == parts[1]
        role == IF Len(parts) = 1 THEN "all" ELSE parts[2]
        entry == IF defined(Get(acc.templates, name))
                 THEN Get(acc.templates, name)
                 ELSE Obj(<< <<"role", EmptyObj>> >>)
    IN  IF ValidParts(parts)
        THEN [acc EXCEPT
                !.templates = Put(acc.templates, name,
                                  Put(entry, "role", Put(Get(entry, "role"), role, templatePath))),
                !.templatesInverse = Put(acc.templatesInverse, templatePath,
                                         Obj(<< <<"name", Str(name)>>, <<"role", Str(role)>> >>))]
        ELSE [acc EXCEPT !.err = TRUE]

\* one iteration of initAppDir's loop over the files of a directory
AddFile(acc, rel, file) ==
    IF file.type = "controller"
    THEN [acc EXCEPT !.controller = Merge(acc.controller, file.export)]
    ELSE IF file.type = "model"
    THEN [acc EXCEPT !.model = Merge(acc.model, file.export)]
    ELSE IF file.type = "template"
    THEN AddTemplate(acc, rel, file.parts)
    ELSE acc

RECURSIVE AddFiles(_, _, _, _)
AddFiles(acc, rel, files, i) ==
    IF i > Len(files) \/ acc.err THEN acc
    ELSE AddFiles(AddFile(acc, rel, files[i]), rel, files, i + 1)

\* the defaults initAppDir gives a controller without name or path
ControllerDefaults(ctrl, moduleName, rel) ==
    LET named == IF ~defined(Get(ctrl, "name"))
                 THEN Put(ctrl, "name", DefaultName(moduleName, rel))
                 ELSE ctrl
    IN  IF ~defined(Get(named, "path")) THEN Put(named, "path", RelPath(rel)) ELSE named

\* a guard that never holds, in place of the loaded guard
NeverLoaded(route) == FALSE

\* if (route.loaded) return
Loaded(route) == Get(route, "loaded") = Bool(TRUE)

RECURSIVE initAppDir(_, _, _, _)
RECURSIVE InitSubDirs(_, _, _, _, _)

\* initAppDir for the directory dir at relative path rel of one app
\* directory: [err, tree], tree being module.routes afterwards
initAppDir(tree, moduleName, rel, dir) ==
    LET t1 == routeFromRel(tree, rel)
        route == NodeAt(t1, rel)
    IN  IF Loaded(route)
        THEN [err |-> FALSE, tree |-> t1]
        ELSE IF ReadError(dir)
        THEN [err |-> TRUE, tree |-> tree]
        ELSE LET t2 == SetNode(t1, rel, Put(route, "loaded", Bool(TRUE)))
                 sub == InitSubDirs(t2, moduleName, rel, dir.dirs, 1)
                 acc == AddFiles([controller |-> EmptyObj, model |-> EmptyObj,
                                  templates |-> EmptyObj, templatesInverse |-> EmptyObj,
                                  err |-> FALSE], rel, dir.files, 1)
                 r0 == NodeAt(sub.tree, rel)
                 r1 == Put(r0, "controller", ControllerDefaults(acc.controller, moduleName, rel))
                 r2 == Put(r1, "model", acc.model)
                 r3 == Put(r2, "templates", acc.templates)
                 r4 == Put(r3, "templatesInverse", acc.templatesInverse)
             IN  IF sub.err \/ acc.err
                 THEN [err |-> TRUE, tree |-> tree]
                 ELSE [err |-> FALSE, tree |-> SetNode(sub.tree, rel, r4)]

InitSubDirs(tree, moduleName, rel, dirs, i) ==
    IF i > Len(dirs) THEN [err |-> FALSE, tree |-> tree]
    ELSE LET r == initAppDir(tree, moduleName, Append(rel, dirs[i][1]), dirs[i][2])
         IN  IF r.err THEN r ELSE InitSubDirs(r.tree, moduleName, rel, dirs, i + 1)

\* initModule: initAppDir for every app directory of the module, in order
RECURSIVE InitAppDirs(_, _, _, _)
InitAppDirs(tree, moduleName, appDirs, i) ==
    IF i > Len(appDirs) THEN [err |-> FALSE, tree |-> tree]
    ELSE LET r == initAppDir(tree, moduleName, <<>>, appDirs[i])
         IN  IF r.err THEN r ELSE InitAppDirs(r.tree, moduleName, appDirs, i + 1)

initModule(module) ==
    InitAppDirs(EmptyObj, module.name,
                [i \in 1..Len(module.app) |-> Paths(module.app[i], <<>>, 0)], 1)

(***************************************************************************)
(* controller.paths: an object keyed by express path, each entry an object *)
(* keyed by http method, each entry the array of the role specs.  An       *)
(* express path is the sequence of its segments ('/' is the empty          *)
(* sequence); a segment that contains ':' is a placeholder.                *)
(***************************************************************************)
ColonSegments == {":id"}

RoleSpec(role, template, methodName, method, explicit) ==
    [role |-> role, template |-> template, methodName |-> methodName,
     method |-> method, allow |-> FALSE, explicit |-> explicit]

\* an assignment of the one spec in place of the push
SetSpec(paths, path, method, spec) ==
    LET methods == IF Has(paths, path) THEN Get(paths, path) ELSE EmptyObj
    IN  Put(paths, path, Put(methods, method, Arr(<<spec>>)))

\* controller.paths[path][method].push(spec), creating the entries for the
\* path and for the method when they are not yet defined
AddSpec(paths, path, method, spec) ==
    LET methods == IF Has(paths, path) THEN Get(paths, path) ELSE EmptyObj
        specs == IF Has(methods, method) THEN Val(Get(methods, method)) ELSE <<>>
    IN  Put(paths, path, Put(methods, method, Arr(Append(specs, spec))))

\* the paths an ImmutableCoreController instance holds for a sequence of
\* controller actions [path, method, role, methodName]
RECURSIVE PathsOf(_, _, _)
PathsOf(paths, actions, i) ==
    IF i > Len(actions) THEN paths
    ELSE PathsOf(AddSpec(paths, actions[i].path, actions[i].method,
                         RoleSpec(actions[i].role, Undefined, actions[i].methodName, TRUE, TRUE)),
                 actions, i + 1)

\* spec.template || spec.methodName
TemplateOf(spec) ==
    IF defined(spec.template) /\ spec.template # EmptyPath THEN spec.template
    ELSE IF spec.methodName # NoName THEN NameRef(spec.methodName)
    ELSE Undefined

\* the body of initRoutes' loop over the role specs of the controller: the
\* template the spec uses is removed from the templates without controller
ClaimTemplate(templates, bareTemplates, spec) ==
    LET role == IF spec.role # NoName THEN spec.role ELSE "all"
        template == KeyOf(TemplateOf(spec))
        bare == Get(bareTemplates, template)
        roles == Get(bare, "role")
    IN  IF defined(Get(templates, template))
        THEN IF defined(Get(roles, role))
             THEN Put(bareTemplates, template, Put(bare, "role", Delete(roles, role)))
             ELSE IF defined(Get(roles, "all"))
             THEN Put(bareTemplates, template, Put(bare, "role", Delete(roles, "all")))
             ELSE bareTemplates
        ELSE bareTemplates

\* all role specs of controller.paths in the order of the three nested loops
RECURSIVE SpecsOfMethods(_, _)
SpecsOfMethods(methods, j) ==
    IF j > Len(Val(methods)) THEN <<>>
    ELSE Val(Val(methods)[j][2]) \o SpecsOfMethods(methods, j + 1)

RECURSIVE SpecsOfPaths(_, _)
SpecsOfPaths(paths, i) ==
    IF i > Len(Val(paths)) THEN <<>>
    ELSE SpecsOfMethods(Val(paths)[i][2], 1) \o SpecsOfPaths(paths, i + 1)

RECURSIVE ClaimTemplates(_, _, _, _)
ClaimTemplates(templates, bareTemplates, specs, i) ==
    IF i > Len(specs) THEN bareTemplates
    ELSE ClaimTemplates(templates, ClaimTemplate(templates, bareTemplates, specs[i]), specs, i + 1)

\* every template left without controller, whatever the role specs use
NothingClaimed(templates, paths) == templates

\* the templates of a node that no role spec of its controller uses
BareTemplates(templates, paths) ==
    ClaimTemplates(templates, templates, SpecsOfPaths(paths, 1), 1)

\* the segments of the path '/' + name
Segments(name) == IF name = "" THEN <<>> ELSE <<name>>

\* the template name as the path of every template, index included
NamedRoute(templateName) == <<templateName>>

\* path of the default controller of a template: index becomes '/'
TemplateRoute(templateName) ==
    IF templateName = "index" THEN <<>> ELSE Segments(templateName)

\* initRoutes' loops creating a get spec for every template without controller
RECURSIVE AddRoleSpecs(_, _, _, _)
AddRoleSpecs(paths, templateName, roles, j) ==
    IF j > Len(Val(roles)) THEN paths
    ELSE AddRoleSpecs(
             AddSpec(paths, TemplateRoute(templateName), "get",
                     RoleSpec(Val(roles)[j][1], Val(roles)[j][2], NoName, FALSE, FALSE)),
             templateName, roles, j + 1)

RECURSIVE AddTemplateSpecs(_, _, _)
AddTemplateSpecs(paths, bareTemplates, i) ==
    IF i > Len(Val(bareTemplates)) THEN paths
    ELSE AddTemplateSpecs(
             AddRoleSpecs(paths, Val(bareTemplates)[i][1],
                          Get(Val(bareTemplates)[i][2], "role"), 1),
             bareTemplates, i + 1)

(***************************************************************************)
(* Ordering of the path names.                                             *)
(***************************************************************************)
HasPlaceholder(path) == \E i \in 1..Len(path) : path[i] \in ColonSegments

\* a comparison that leaves every pair of paths in the order it has
keepOrder(a, b) == 0

sortPlaceholdersLower(a, b) ==
    IF HasPlaceholder(a) /\ HasPlaceholder(b) THEN 0
    ELSE IF HasPlaceholder(a) THEN 1
    ELSE IF HasPlaceholder(b) THEN -1
    ELSE 0

\* every path put before the paths that came before it
Prepend(sorted, x) == <<x>> \o sorted

\* Array.prototype.sort with sortPlaceholdersLower: a stable insertion sort
RECURSIVE Insert(_, _)
Insert(sorted, x) ==
    IF sorted = <<>> THEN <<x>>
    ELSE IF sortPlaceholdersLower(sorted[Len(sorted)], x) > 0
    THEN Append(Insert(SubSeq(sorted, 1, Len(sorted) - 1), x), sorted[Len(sorted)])
    ELSE Append(sorted, x)

RECURSIVE SortFrom(_, _, _)
SortFrom(sorted, names, i) ==
    IF i > Len(names) THEN sorted
    ELSE SortFrom(Insert(sorted, names[i]), names, i + 1)

SortedPathNames(paths) == SortFrom(<<>>, Keys(paths), 1)

(***************************************************************************)
(* Layers of an express router, in the order they were registered.         *)
(***************************************************************************)
UseLayer(segment) ==
    [kind |-> "use", segment |-> segment, path |-> <<>>, method |-> "", specs |-> <<>>]
RouteLayer(path, method, specs) ==
    [kind |-> "route", segment |-> "", path |-> path, method |-> method, specs |-> specs]

RECURSIVE MethodLayers(_, _, _)
MethodLayers(path, methods, j) ==
    IF j > Len(Val(methods)) THEN <<>>
    ELSE <<RouteLayer(path, Val(methods)[j][1], Val(Val(methods)[j][2]))>>
         \o MethodLayers(path, methods, j + 1)

RECURSIVE PathLayers(_, _, _)
PathLayers(paths, names, i) ==
    IF i > Len(names) THEN <<>>
    ELSE MethodLayers(names[i], Get(paths, names[i]), 1) \o PathLayers(paths, names, i + 1)

\* the route layers initRoutes registers for the paths of a controller
ControllerLayers(paths) == PathLayers(paths, SortedPathNames(paths), 1)

\* the routes of the controller ahead of the layers the router has
RegisterAhead(layers, routeLayers) == routeLayers \o layers

\* route.router[method](path, ...) for the routes of the controller, on the
\* router that has the mounts of the children as its layers
Register(layers, routeLayers) == layers \o routeLayers

\* the nodes of a tree in the order initRoutes finishes them: the children
\* of a node, in the order of its routes object, before the node
RECURSIVE PostOrder(_, _)
RECURSIVE PostOrderChildren(_, _, _)
PostOrderChildren(tree, rel, i) ==
    LET children == Get(NodeAt(tree, rel), "routes")
    IN  IF ~defined(children) \/ i > Len(Val(children)) THEN <<>>
        ELSE PostOrder(tree, Append(rel, Val(children)[i][1]))
             \o PostOrderChildren(tree, rel, i + 1)
PostOrder(tree, rel) == PostOrderChildren(tree, rel, 1) \o <<rel>>

(***************************************************************************)
(* Requests: the express routers and the presenter.                        *)
(***************************************************************************)
\* a strict, case sensitive express path against the segments of a url
Match(path, url) ==
    /\ Len(path) = Len(url)
    /\ \A i \in 1..Len(path) : path[i] = url[i] \/ path[i] \in ColonSegments

LayersOf(routers, rel) == IF Has(routers, rel) THEN Val(Get(routers, rel)) ELSE <<>>

NotFound == [found |-> FALSE, rel |-> <<>>, layer |-> UseLayer("")]

\* the route layer express hands the request to: the first layer, in
\* registration order, that matches; a mounted router that matches nothing
\* passes the request on to the layers after it
RECURSIVE Dispatch(_, _, _, _, _)
Dispatch(routers, rel, url, method, i) ==
    LET layers == LayersOf(routers, rel)
        layer == layers[i]
        inner == Dispatch(routers, Append(rel, layer.segment), Tail(url), method, 1)
    IN  IF i > Len(layers) THEN NotFound
        ELSE IF layer.kind = "use"
        THEN IF url # <<>> /\ url[1] = layer.segment /\ inner.found
             THEN inner
             ELSE Dispatch(routers, rel, url, method, i + 1)
        ELSE IF layer.method = method /\ Match(layer.path, url)
        THEN [found |-> TRUE, rel |-> rel, layer |-> layer]
        ELSE Dispatch(routers, rel, url, method, i + 1)

\* req.session.roles, ['all'] for a request without session roles
RolesOf(session) == IF session = <<>> THEN <<"all">> ELSE session

Eligible(spec, roles) ==
    spec.role = "all" \/ \E i \in 1..Len(roles) : spec.role = roles[i]

\* the position of the last spec whose role is all or a role of the session
FindLastSpec(specs, roles) ==
    IF \E i \in 1..Len(specs) : Eligible(specs[i], roles)
    THEN CHOOSE i \in 1..Len(specs) :
            Eligible(specs[i], roles) /\ \A j \in (i + 1)..Len(specs) : ~Eligible(specs[j], roles)
    ELSE 0

\* _.find(args.spec, ...): position of the first spec whose role is all or
\* a role of the session, 0 when there is none
FindSpec(specs, roles) ==
    IF \E i \in 1..Len(specs) : Eligible(specs[i], roles)
    THEN CHOOSE i \in 1..Len(specs) :
            Eligible(specs[i], roles) /\ \A j \in 1..(i - 1) : ~Eligible(specs[j], roles)
    ELSE 0

\* the template the presenter renders for a spec and the active role
ResolveTemplate(templates, spec, activeRole) ==
    LET template == TemplateOf(spec)
        roles == Get(Get(templates, KeyOf(template)), "role")
    IN  IF defined(Get(templates, KeyOf(template)))
        THEN IF defined(Get(roles, activeRole)) THEN Get(roles, activeRole)
             ELSE IF defined(Get(roles, "all")) THEN Get(roles, "all")
             ELSE template
        ELSE template

NoResponse ==
    [status |-> "none", url |-> <<>>, rel |-> <<>>, path |-> <<>>, method |-> "",
     roles |-> <<>>, specs |-> <<>>, index |-> 0, template |-> Undefined]

\* what a request came to: the request (url, method, roles), the route
\* layer it was dispatched to (rel, path, specs), the position of the role
\* spec the presenter selected and the template it rendered
Response(status, hit, method, roles, index, template) ==
    [status |-> status, url |-> <<>>, rel |-> hit.rel, path |-> hit.layer.path,
     method |-> method, roles |-> roles, specs |-> hit.layer.specs, index |-> index,
     template |-> template]

\* presenter(args, req, res, next) for the route layer hit by the request
presenter(tree, hit, method, session, baseMatch, allowRoute) ==
    LET route == NodeAt(tree, hit.rel)
        roles == RolesOf(session)
        specs == hit.layer.specs
        index == FindSpec(specs, roles)
        spec == specs[index]
        template == ResolveTemplate(Get(route, "templates"), spec, spec.role)
    IN  IF Val(Get(route, "model")) # <<>> /\ baseMatch
        THEN Response("redirect", hit, method, roles, 0, Undefined)
        ELSE IF index = 0
        THEN Response("forbidden", hit, method, roles, 0, Undefined)
        ELSE IF ~spec.allow /\ ~allowRoute
        THEN Response("forbidden", hit, method, roles, index, Undefined)
        ELSE IF ~defined(template)
        THEN Response("error", hit, method, roles, index, Undefined)
        ELSE IF spec.method
        THEN Response("method", hit, method, roles, index, template)
        ELSE Response("render", hit, method, roles, index, template)

(***************************************************************************)
(* Inputs: the app directories of the modules, the actions of the          *)
(* controllers and the requests.                                           *)
(***************************************************************************)
ModuleNames == <<"base", "auth", "app", "admin", "extra">>

\* controller files exporting a plain object with one scalar field, with
\* one array field or with one object field, and model files
ScalarFiles ==
    { ControllerFile(Obj(<< <<"name", Str("A")>> >>)),
      ControllerFile(Obj(<< <<"name", Str("B")>> >>)),
      ControllerFile(Obj(<< <<"json", Str("X")>> >>)),
      ControllerFile(Obj(<< <<"json", Str("Y")>> >>)) }

ArrayFiles ==
    { ControllerFile(Obj(<< <<"fields", Arr(<<Str("a")>>)>> >>)),
      ControllerFile(Obj(<< <<"fields", Arr(<<Str("b"), Str("c")>>)>> >>)) }

ObjectFiles ==
    { ControllerFile(Obj(<< <<"get", Obj(<< <<"method", Str("X")>> >>)>> >>)),
      ControllerFile(Obj(<< <<"get", Obj(<< <<"method", Str("Z")>> >>)>> >>)),
      ControllerFile(Obj(<< <<"get", Obj(<< <<"extra", Str("Y")>> >>)>> >>)) }

ModelFiles ==
    { ModelFile(Obj(<< <<"name", Str("m1")>> >>)),
      ModelFile(Obj(<< <<"name", Str("m2")>> >>)) }

FileFamilies == {ScalarFiles, ArrayFiles, ObjectFiles, ModelFiles}

TemplateNames == { <<"foo">>, <<"foo", "bar">>, <<"index">> }

RECURSIVE SeqsOf(_, _)
SeqsOf(S, k) ==
    IF k = 0 THEN {<<>>} ELSE {Append(q, x) : q \in SeqsOf(S, k - 1), x \in S}

SeqsUpTo(S, k) == UNION {SeqsOf(S, j) : j \in 0..k}

IsInjective(q) == \A i, j \in 1..Len(q) : q[i] = q[j] => i = j

\* app directories with a sub-directory widgets holding the given files, or
\* without sub-directory
WidgetsApp(files) == <<Dir(<<>>, << <<"widgets", Dir(files, <<>>)>> >>)>>
BareApp == <<Dir(<<>>, <<>>)>>

\* the app directories a module may have with exactly k files of a family
ModuleApps(family, k) ==
    {WidgetsApp(files) : files \in SeqsOf(family, k)}
        \cup (IF k = 0 THEN {BareApp} ELSE {})

\* the sequences of n modules' app directories with at most f files in all
RECURSIVE ModuleSeqs(_, _, _)
ModuleSeqs(family, n, f) ==
    IF n = 0 THEN {<<>>}
    ELSE UNION {LET rests == ModuleSeqs(family, n - 1, f - k)
                IN  {<<apps>> \o rest : apps \in ModuleApps(family, k), rest \in rests} :
                    k \in 0..f}

Named(appsSeq) == [i \in 1..Len(appsSeq) |-> [name |-> ModuleNames[i], app |-> appsSeq[i]]]

FileSystems(families) ==
    {Named(q) : q \in UNION {ModuleSeqs(family, n, MaxFiles) :
                                family \in families, n \in 1..MaxModules}}

\* one module with template files in its root directory, every subset of
\* the template names in every order of enumeration, or with a template and
\* its role specific variant in the sub-directory widgets, in either order,
\* or with a model and a template in widgets
TemplateFiles(q) == [i \in 1..Len(q) |-> TemplateFile(q[i])]

TemplateFileSystems ==
    {Named(<< <<Dir(TemplateFiles(q), <<>>)>> >>) :
        q \in {t \in SeqsUpTo(TemplateNames, Cardinality(TemplateNames)) : IsInjective(t)}}
    \cup
    {Named(<<WidgetsApp(TemplateFiles(q))>>) :
        q \in { << <<"foo">>, <<"foo", "bar">> >>, << <<"foo", "bar">>, <<"foo">> >> }}
    \cup
    {Named(<<WidgetsApp(<<ModelFile(Obj(<< <<"name", Str("m1")>> >>)),
                         TemplateFile(<<"foo">>)>>)>>)}

\* app directories for the scan: templates in the root, a controller or a
\* template in the sub-directory widgets, the sub-directory parts below
\* widgets, a template file name with two dots, a template file whose name
\* is the extension alone, and a sub-directory loop of widgets that is a
\* link to widgets itself or to the app directory
Nested(files, dirs) == Dir(<<>>, << <<"widgets", Dir(files, dirs)>> >>)

ScanDirs ==
    { Dir(TemplateFiles(<< <<"foo">> >>), <<>>),
      Dir(TemplateFiles(<< <<"foo", "bar">>, <<"index">> >>), <<>>),
      Dir(TemplateFiles(<< <<"foo", "bar", "baz">> >>), <<>>),
      Dir(TemplateFiles(<< <<"">> >>), <<>>),
      Nested(<<ControllerFile(Obj(<< <<"name", Str("A")>> >>)),
               ModelFile(Obj(<< <<"name", Str("m1")>> >>))>>, <<>>),
      Nested(TemplateFiles(<< <<"foo">> >>),
             << <<"parts", Dir(TemplateFiles(<< <<"index">> >>), <<>>)>> >>),
      Nested(TemplateFiles(<< <<"foo">> >>), << <<"loop", Link(1)>> >>),
      Nested(<<>>, << <<"loop", Link(2)>> >>) }

\* one or two modules, the first with one or two app directories
ScanFileSystems ==
    LET first == SeqsOf(ScanDirs, 1) \cup SeqsOf(ScanDirs, 2)
    IN  {Named(<<apps>>) : apps \in first}
        \cup {Named(<<apps, <<dir>> >>) : apps \in first, dir \in ScanDirs}

\* app directories for start(): models in the root and in widgets, in one
\* module or in two, a template, or a template file name with two dots
StartDirs ==
    { Dir(<<ModelFile(Obj(<< <<"name", Str("m1")>> >>))>>,
          << <<"widgets", Dir(<<ModelFile(Obj(<< <<"name", Str("m2")>> >>))>>, <<>>)>> >>),
      Dir(<<ModelFile(Obj(<< <<"name", Str("m3")>> >>))>>, <<>>),
      Dir(TemplateFiles(<< <<"foo">> >>), <<>>),
      Dir(TemplateFiles(<< <<"foo", "bar", "baz">> >>), <<>>) }

StartFileSystems ==
    {Named(<< <<dir>> >>) : dir \in StartDirs}
        \cup {Named(<< <<dir>>, <<other>> >>) : dir \in StartDirs, other \in StartDirs}

\* the app for the requests: a model and the template foo in the app
\* directory
RequestFileSystems ==
    {Named(<< <<Dir(<<ModelFile(Obj(<< <<"name", Str("m1")>> >>)), TemplateFile(<<"foo">>)>>,
                    <<>>)>> >>)}

\* app directories for initDir: a module with a model in widgets and a
\* template foo, or with the template index, whose default directory or a
\* configured directory does not exist, the missing directory being the
\* only one of the module or listed with one that exists, and one such
\* module after a module whose directories exist
DirApps ==
    LET present == { Dir(TemplateFiles(<< <<"foo">> >>),
                         << <<"widgets", Dir(<<ModelFile(Obj(<< <<"name", Str("m1")>> >>))>>,
                                             <<>>)>> >>),
                     Dir(TemplateFiles(<< <<"index">> >>), <<>>) }
    IN  {<<dir>> : dir \in present}
        \cup {<<Missing(kind)>> : kind \in {"configured", "default"}}
        \cup {<<dir, Missing("default")>> : dir \in present}
        \cup {<<Missing("configured"), dir>> : dir \in present}
        \cup {<<dir, Missing("configured")>> : dir \in present}

DirFileSystems ==
    {Named(<<apps>>) : apps \in DirApps}
        \cup {Named(<<first, apps>>) : first \in {a \in DirApps : Len(a) = 1}, apps \in DirApps}

\* the app directories of a module that the application gets
NewModuleApps ==
    { <<Dir(<<ModelFile(Obj(<< <<"name", Str("m1")>> >>)), TemplateFile(<<"foo">>)>>, <<>>)>> }

Methods == {"get", "post"}
Roles == {"all", "bar"}

\* the actions a controller may define, [path, method, role, methodName]:
\* get and post on the literal path '/foo' and get on the placeholder path
\* '/:id', for all or for the role bar, their method named like the
\* template foo or not
Action(path, method, role, methodName) ==
    [path |-> path, method |-> method, role |-> role, methodName |-> methodName]

Actions ==
    { Action(<<"foo">>, "get", "bar", "foo"),
      Action(<<"foo">>, "post", "bar", "foo"),
      Action(<<"foo">>, "get", "all", "foo"),
      Action(<<"foo">>, "get", "all", "list"),
      Action(<<"foo">>, "get", "bar", "list"),
      Action(<<":id">>, "get", "all", "list") }

\* the actions the controller of a node may define: those, and get on the
\* path that is the name of one of the node's sub-directories
ChildNames(route) ==
    IF Has(route, "routes")
    THEN {Keys(Get(route, "routes"))[i] : i \in 1..Len(Keys(Get(route, "routes")))}
    ELSE {}

ActionsAt(route) ==
    Actions \cup {Action(<<name>>, "get", "all", "list") : name \in ChildNames(route)}

\* the urls requested: every path a router has a route for, below the
\* mount point of the router, the placeholder being foo or bar, and a url
\* that only a placeholder can match
Instances(path) ==
    {u \in SeqsOf({"foo", "bar"}, Len(path)) :
        \A i \in 1..Len(path) : path[i] \in ColonSegments \/ u[i] = path[i]}

Urls(routers) ==
    { <<"bar">> } \cup
    UNION {UNION {{Val(routers)[n][1] \o u : u \in Instances(Val(Val(routers)[n][2])[i].path)} :
                    i \in {k \in 1..Len(Val(Val(routers)[n][2])) :
                              Val(Val(routers)[n][2])[k].kind = "route"}} :
            n \in 1..Len(Val(routers))}
Sessions == { <<>>, <<"bar">> }

(***************************************************************************)
(* config(args).  The module is built in two ways: the test for an option  *)
(* is  key in defaultConfig  in one and  defaultConfig[key]  in the other. *)
(***************************************************************************)
Num(n) == <<"i", n>>

\* the truthiness of a value
ToBoolean(v) ==
    IF Tag(v) = "u" THEN FALSE
    ELSE IF Tag(v) = "b" THEN Val(v)
    ELSE IF Tag(v) = "s" THEN Val(v) # ""
    ELSE IF Tag(v) = "i" THEN Val(v) # 0
    ELSE TRUE

DefaultGlobalConfig ==
    Obj(<< <<"exit", Bool(TRUE)>>, <<"express", Undefined>>, <<"initialized", Bool(FALSE)>>,
           <<"https", Bool(FALSE)>>, <<"log", Bool(TRUE)>>, <<"port", Num(7777)>>,
           <<"server", Undefined>>, <<"started", Bool(FALSE)>>, <<"use", Arr(<<>>)>>,
           <<"assets", Obj(<< <<"js", Arr(<<Str("jquery.min.js")>>)>> >>)>> >>)

DefaultModuleConfig ==
    Obj(<< <<"name", Undefined>>, <<"base", Undefined>>,
           <<"dir", Obj(<< <<"app", Arr(<<>>)>> >>)>>, <<"routes", EmptyObj>> >>)

\* properties every plain object inherits from Object.prototype
PrototypeKeys == {"toString", "constructor"}

\* object[key]
Property(object, key) ==
    IF Has(object, key) THEN Get(object, key)
    ELSE IF key \in PrototypeKeys THEN Str("function")
    ELSE Undefined

\* key in object
In(key, object) == Has(object, key) \/ key \in PrototypeKeys

Builds == {"in", "truthy"}

IsOption(build, key, defaults) ==
    IF build = "in" THEN In(key, defaults) ELSE ToBoolean(Property(defaults, key))

\* _.mergeWith(object, source, mergeArrays): an array in the object has the
\* source value appended (a.concat(b)), anything else is merged as by _.merge
RECURSIVE MergeWithEntries(_, _, _)
MergeWithValue(present, objValue, srcValue) ==
    IF Tag(objValue) = "a"
    THEN Arr(Val(objValue) \o (IF Tag(srcValue) = "a" THEN Val(srcValue) ELSE <<srcValue>>))
    ELSE IF Tag(srcValue) = "o"
    THEN MergeWithEntries(IF Tag(objValue) = "o" THEN objValue ELSE EmptyObj, Val(srcValue), 1)
    ELSE IF Tag(srcValue) = "a" THEN BaseMergeDeep(objValue, srcValue)
    ELSE IF srcValue = Undefined /\ present THEN objValue
    ELSE srcValue

MergeWithEntries(object, kvs, i) ==
    IF i > Len(kvs) THEN object
    ELSE LET key == kvs[i][1]
         IN  MergeWithEntries(
                 Put(object, key, MergeWithValue(Has(object, key), Get(object, key), kvs[i][2])),
                 kvs, i + 1)

MergeWith(object, source) == MergeWithEntries(object, Val(source), 1)

\* data whose arrays are the arrays of the source themselves
Alias(data, source) == [value |-> Merge(data, source), shared |-> {"js"}]

\* _.merge(data, config.assets) into data without the keys of the assets:
\* every array and object of the source is copied, none is shared
MergeAssets(data, source) == [value |-> Merge(data, source), shared |-> {}]

\* the scripts the presenter pushes to data.js for data with components
ComponentScripts == <<Str("handlebars.runtime.min.js"), Str("immutable-app-component.js")>>

\* config(args) called on module m: the keys of args in order, up to the
\* first that is no option
RECURSIVE config(_, _, _, _)
config(c, m, args, i) ==
    IF i > Len(args) THEN c
    ELSE LET key == args[i][1]
             merge == Obj(<<args[i]>>)
         IN  IF IsOption(c.build, key, DefaultGlobalConfig)
             THEN config([c EXCEPT !.global = MergeWith(@, merge)], m, args, i + 1)
             ELSE IF IsOption(c.build, key, DefaultModuleConfig)
             THEN config([c EXCEPT !.modules[m] = MergeWith(@, merge)], m, args, i + 1)
             ELSE [c EXCEPT !.thrown = TRUE]

\* new ImmutableAppModule(name)
ImmutableAppModule(name) ==
    Put(Put(Merge(EmptyObj, DefaultModuleConfig), "name", Str(name)), "base", Str("/"))

\* the configuration before any call of config
NewConfig(build) ==
    [build |-> build, global |-> DefaultGlobalConfig,
     modules |-> <<ImmutableAppModule(ModuleNames[1]), ImmutableAppModule(ModuleNames[2])>>,
     caller |-> 0, args |-> <<>>, thrown |-> FALSE]

\* the options config is called with: global options whose default is
\* true, a number, false, undefined and an array, module options whose
\* default is undefined and an object, an inherited property, another key
Options ==
    { <<"log", Bool(FALSE)>>, <<"port", Num(8080)>>, <<"https", Bool(TRUE)>>,
      <<"express", Str("app")>>, <<"use", Arr(<<Str("mw")>>)>>,
      <<"name", Str("shop")>>, <<"dir", Obj(<< <<"app", Arr(<<Str("/shop")>>)>> >>)>>,
      <<"toString", Str("text")>>, <<"bogus", Str("x")>> }

ConfigArgs ==
    {args \in UNION {SeqsOf(Options, n) : n \in 1..MaxArgs} :
        \A i, j \in 1..Len(args) : args[i][1] = args[j][1] => i = j}

(***************************************************************************)
(* The handlers of the express app, in the order of config.express.use.    *)
(***************************************************************************)
Handler(kind, by) == [kind |-> kind, by |-> by]

\* the middleware a module adds with use(): Array.from(arguments), the
\* function named after the module that defines it
Middleware(moduleName) == Arr(<<Str(moduleName)>>)

\* the handlers for the entries of config.use: the arguments of an entry
\* that is an array, the entry itself otherwise
RECURSIVE CustomHandlers(_, _)
CustomHandlers(use, i) ==
    IF i > Len(use) THEN <<>>
    ELSE <<Handler("custom", IF Tag(use[i]) = "a" THEN Val(Val(use[i])[1]) ELSE Val(use[i]))>>
         \o CustomHandlers(use, i + 1)

\* initExpress: the static assets, the request id, the body parsers, the
\* cookie parser, the logger when config.log is set, and config.use
initExpress(global) ==
    << Handler("static", ""), Handler("requestId", ""), Handler("json", ""),
       Handler("urlencoded", ""), Handler("cookieParser", "") >>
    \o (IF ToBoolean(Get(global, "log")) THEN <<Handler("morgan", "")>> ELSE <<>>)
    \o CustomHandlers(Val(Get(global, "use")), 1)

(***************************************************************************)
(* The state machine.                                                      *)
(***************************************************************************)
\* config.models[route.model.name] = route.model, for a node with a model
Registered(register, model, rel) ==
    IF Val(model) # <<>> THEN Put(register, Get(model, "name"), RelPath(rel)) ELSE register

\* a next sync() started whatever is in flight
MayStartAny(inflight) == TRUE

\* Promise.each calls the iterator for the next model when the promise the
\* iterator returned for the previous one has resolved
MayStartSync(inflight) == inflight = {}

\* a promise that is not waited for: its rejection goes unnoticed
NotAwaited(rejected) == FALSE

\* await: the rejection of the promise is thrown
Awaited(rejected) == rejected

\* start() rejects with the error of a step
Rejected(a, step) == [a EXCEPT !.rejected = step]

\* the steps of init()
InitSteps == {"initDir", "initApp", "initModels", "initServices"}

NoFault == [fault |-> "none", noSync |-> FALSE, requests |-> 1, testOnly |-> FALSE]

\* the steps of init() and start() the environment can make fail: a
\* configured directory of assets, helpers or views that does not exist, a
\* model without database, a
\* sync() or the initialization of the services that rejects, an onStart
\* hook that rejects, a listen error
InitFaults == {"initDir", "database", "sync", "services"}
StartFaults == {"onStart", "listen"}
Environments ==
    [fault : {"none"} \cup InitFaults \cup StartFaults, noSync : BOOLEAN, requests : {1},
     testOnly : {FALSE}]

\* the same with process.env.START_TEST_ONLY set or not, and with a
\* server.close that calls back with an error
StopFaults == {"close"}
TestEnvironments ==
    [fault : {"none"} \cup InitFaults \cup StartFaults \cup StopFaults, noSync : BOOLEAN,
     requests : {1}, testOnly : BOOLEAN]

InitFields ==
    /\ next = 1
    /\ routes = EmptyObj
    /\ sync = [queue |-> <<>>, calls |-> <<>>, inflight |-> {}, resolved |-> <<>>]
    /\ reqs = [received |-> 0, pending |-> {}]
    /\ todo = <<>>
    /\ controller = EmptyObj
    /\ router = EmptyObj
    /\ models = EmptyObj
    /\ response = NoResponse

\* the express app and the server of a process in which start() was called
\* starts times; bound says that a server of the process listens on the
\* port, resetAt how many times start() was called before the last reset()
NewApp(starts) ==
    [initialized |-> FALSE, server |-> FALSE, started |-> FALSE, rejected |-> "none",
     exits |-> 0, express |-> <<>>, starts |-> starts, bound |-> FALSE, resets |-> 0,
     resetAt |-> 0]

InitState ==
    /\ pc = "initDir"
    /\ app = NewApp(1)
    /\ InitFields

\* the process that has required the module, before any start()
Required ==
    /\ pc = "config"
    /\ app = NewApp(0)
    /\ InitFields

Configured == conf = NewConfig("in")

\* the configuration reset() leaves: the defaults, and no module
DefaultConfig == [NewConfig("in") EXCEPT !.modules = <<>>]

InitMerge ==
    InitState /\ fsys \in FileSystems(FileFamilies) /\ budget = 0 /\ env = NoFault /\ Configured
InitRoutes ==
    InitState /\ fsys \in TemplateFileSystems /\ budget = MaxActions /\ env = NoFault /\ Configured
InitScan ==
    InitState /\ fsys \in ScanFileSystems /\ budget = 0 /\ env = NoFault /\ Configured
InitStart ==
    InitState /\ fsys \in StartFileSystems /\ budget = 0 /\ env \in Environments /\ Configured
InitRequests ==
    /\ InitState /\ fsys \in RequestFileSystems /\ budget = 1 /\ Configured
    /\ env = [NoFault EXCEPT !.requests = MaxRequests]
InitLifecycle ==
    InitState /\ fsys \in StartFileSystems /\ budget = 0 /\ env \in TestEnvironments /\ Configured
\* the process with the module loaded: no module yet, start() not called
InitExpress ==
    /\ Required /\ fsys = <<>> /\ budget = 0 /\ env = NoFault /\ conf = DefaultConfig
\* one module whose app directory holds the templates of a name for all
\* roles, for one role, or for both in either order of enumeration
ClaimFileSystems ==
    {Named(<< <<Dir(TemplateFiles(q), <<>>)>> >>) :
        q \in { << <<"foo">> >>, << <<"foo", "bar">> >>,
                << <<"foo">>, <<"foo", "bar">> >>, << <<"foo", "bar">>, <<"foo">> >> }}
InitClaim ==
    InitState /\ fsys \in ClaimFileSystems /\ budget = MaxSpecs /\ env = NoFault /\ Configured

\* the paths of a controller with several literal and placeholder paths
PathNames == {<<"foo">>, <<"bar">>, <<":id">>, <<":id", "edit">>}

\* initRoutes called for the root node, its controller not yet built
InitSort ==
    /\ pc = "paths" /\ app = NewApp(1) /\ InitFields
    /\ fsys = <<>> /\ budget = 0 /\ env = NoFault /\ Configured

\* the same in any environment that lets a start fail or succeed
RestartEnvironments ==
    [fault : {"none", "sync", "listen", "close"}, noSync : {FALSE}, requests : {1},
     testOnly : {FALSE}]
InitRestart ==
    /\ Required /\ fsys = <<>> /\ budget = 0 /\ env \in RestartEnvironments
    /\ conf = DefaultConfig
InitDirs ==
    InitState /\ fsys \in DirFileSystems /\ budget = 0 /\ env = NoFault /\ Configured
InitConfig ==
    /\ InitState /\ fsys = Named(<<BareApp, BareApp>>) /\ budget = 0 /\ env = NoFault
    /\ conf \in {NewConfig(build) : build \in Builds}
Init ==
    \/ InitMerge \/ InitRoutes \/ InitScan \/ InitStart \/ InitRequests \/ InitDirs
    \/ InitConfig \/ InitLifecycle \/ InitExpress \/ InitRestart \/ InitSort
    \/ InitClaim

\* a module calls config(args), before the app is started
Config ==
    /\ pc = "initDir"
    /\ conf.caller = 0
    /\ \E m \in 1..Len(conf.modules), args \in ConfigArgs :
        conf' = config([conf EXCEPT !.caller = m, !.args = args], m, args, 1)
    /\ UNCHANGED <<fsys, next, routes, pc, todo, controller, router, models, budget, response,
                   env, app, sync, reqs>>

\* initDir: getDir for every module and every kind of directory.  It
\* throws for a configured directory that does not exist, an app directory
\* or (env.fault) one of another kind, and leaves in module.dir.app the
\* directories that exist; then initExpress
InitDir ==
    /\ pc = "initDir"
    /\ LET failed == env.fault = "initDir" \/ \E i \in 1..Len(fsys) : getDir(fsys[i].app).err
       IN  /\ pc' = IF failed THEN "error" ELSE "initApp"
           /\ app' = IF failed THEN Rejected(app, "initDir")
                     ELSE [app EXCEPT !.express = @ \o initExpress(conf.global)]
           /\ fsys' = IF failed THEN fsys
                      ELSE [i \in 1..Len(fsys) |-> [fsys[i] EXCEPT !.app = getDir(@).dirs]]
    /\ UNCHANGED <<next, routes, todo, controller, router, models, budget, response,
                   env, sync, conf, reqs>>

\* one iteration of initApp's loop over the modules: initModule and the
\* merge of module.routes into config.routes
InitModule ==
    /\ pc = "initApp"
    /\ next <= Len(fsys)
    /\ LET r == initModule(fsys[next])
           merged == Merge(routes, r.tree)
       IN  IF r.err
           THEN /\ pc' = "error"
                /\ app' = Rejected(app, "initApp")
                /\ UNCHANGED <<next, routes, todo>>
           ELSE /\ routes' = merged
                /\ app' = app
                /\ next' = next + 1
                /\ pc' = IF next = Len(fsys) THEN "initRoutes" ELSE "initApp"
                /\ todo' = IF next = Len(fsys) THEN PostOrder(merged, <<>>) ELSE todo
    /\ UNCHANGED <<fsys, controller, router, models, budget, response, env, sync, conf, reqs>>

\* initRoutes for one node, its children done: the controller with the
\* actions it defines, the default controllers of the templates, the route
\* layers in sorted order, and the mount of the router on the parent's,
\* for the root node on the express app, followed by initErrorHandler.
\* The paths ImmutableCoreController builds from the controller spec are
\* any sequence of actions; budget bounds the actions of all controllers.
InitRoutesNode ==
    /\ pc = "initRoutes"
    /\ todo # <<>>
    /\ \E actions \in SeqsUpTo(ActionsAt(NodeAt(routes, Head(todo))), budget) :
        LET rel == Head(todo)
            route == NodeAt(routes, rel)
            model == Get(route, "model")
            explicit == PathsOf(EmptyObj, actions, 1)
            bareTemplates == BareTemplates(Get(route, "templates"), explicit)
            paths == AddTemplateSpecs(explicit, bareTemplates, 1)
            own == Put(router, rel, Arr(Register(LayersOf(router, rel), ControllerLayers(paths))))
            parent == SubSeq(rel, 1, Len(rel) - 1)
        IN  /\ controller' = Put(controller, rel, paths)
            /\ router' = IF rel = <<>> THEN own
                         ELSE Put(own, parent,
                                  Arr(Append(LayersOf(own, parent), UseLayer(rel[Len(rel)]))))
            /\ models' = Registered(models, model, rel)
            /\ budget' = budget - Len(actions)
            /\ sync' = IF Tail(todo) = <<>>
                       THEN [sync EXCEPT !.queue = Keys(Registered(models, model, rel))]
                       ELSE sync
    /\ todo' = Tail(todo)
    /\ pc' = IF Tail(todo) = <<>> THEN "initModels" ELSE "initRoutes"
    /\ app' = IF Tail(todo) = <<>>
              THEN [app EXCEPT !.express = @ \o <<Handler("router", ""),
                                                  Handler("errorHandler", "")>>]
              ELSE app
    /\ UNCHANGED <<fsys, next, routes, response, env, conf, reqs>>

\* initModels, the callback of Promise.each for the next model of
\* _.values(config.models): the assert on the database, and the call of
\* model.sync() unless NO_SYNC is set
InitModel ==
    /\ pc = "initModels"
    /\ sync.queue # <<>>
    /\ MayStartSync(sync.inflight)
    /\ IF env.fault = "database"
       THEN pc' = "error" /\ app' = Rejected(app, "initModels") /\ UNCHANGED sync
       ELSE /\ pc' = pc
            /\ app' = app
            /\ sync' = IF env.noSync
                       THEN [sync EXCEPT !.queue = Tail(@)]
                       ELSE [sync EXCEPT !.queue = Tail(@),
                                         !.calls = Append(@, Head(sync.queue)),
                                         !.inflight = @ \cup {Head(sync.queue)}]
    /\ UNCHANGED <<fsys, next, routes, todo, controller, router, models, budget, response,
                   env, conf, reqs>>

\* a promise returned by model.sync() settles: it resolves, or it rejects,
\* and the rejection leaves Promise.each, initModels and init
SyncSettle ==
    /\ pc = "initModels"
    /\ \E name \in sync.inflight, rejected \in {FALSE, env.fault = "sync"} :
        /\ sync' = [sync EXCEPT !.inflight = @ \ {name},
                                !.resolved = IF rejected THEN @ ELSE Append(@, name)]
        /\ pc' = IF rejected THEN "error" ELSE pc
        /\ app' = IF rejected THEN Rejected(app, "initModels") ELSE app
    /\ UNCHANGED <<fsys, next, routes, todo, controller, router, models, budget, response,
                   env, conf, reqs>>

\* the promise of initModels resolved: initServices, and with its promise
\* resolved the initialized flag
InitServices ==
    /\ pc = "initModels"
    /\ sync.queue = <<>>
    /\ sync.inflight = {}
    /\ IF Awaited(env.fault = "services")
       THEN pc' = "error" /\ app' = Rejected(app, "initServices")
       ELSE pc' = "start" /\ app' = [app EXCEPT !.initialized = TRUE]
    /\ UNCHANGED <<fsys, next, routes, todo, controller, router, models, budget, response,
                   env, sync, conf, reqs>>

\* start() with init() done: the onStart functions of the modules, then
\* http.createServer and server.listen
CreateServer ==
    /\ pc = "start"
    /\ IF env.fault = "onStart"
       THEN pc' = "error" /\ app' = Rejected(app, "onStart")
       ELSE pc' = "listen" /\ app' = [app EXCEPT !.server = TRUE]
    /\ UNCHANGED <<fsys, next, routes, todo, controller, router, models, budget, response,
                   env, sync, conf, reqs>>

\* the server stopped and the process ended whatever the environment has
AlwaysTestOnly(testOnly) == "stopping"

\* the then() of start(): with START_TEST_ONLY set the server is stopped
\* again, and start() is resolved with the server listening otherwise
AfterListen(testOnly) == IF testOnly THEN "stopping" ELSE "listening"

\* the callback of server.listen, or the listen error of the server, which
\* the environment raises and a port that a server of the process holds
Listening ==
    /\ pc = "listen"
    /\ IF env.fault = "listen" \/ app.bound
       THEN pc' = "error" /\ app' = Rejected(app, "listen")
       ELSE /\ pc' = AfterListen(env.testOnly)
            /\ app' = [app EXCEPT !.started = TRUE, !.bound = TRUE]
    /\ UNCHANGED <<fsys, next, routes, todo, controller, router, models, budget, response,
                   env, sync, conf, reqs>>

\* a request handled by the express app: express looks for the route, and
\* the presenter of the route found reads the session and asks the access
\* control, and renders the template or calls the controller method, whose
\* promise is pending then; the model follows env.requests requests
Request ==
    /\ pc = "listening"
    /\ reqs.received < env.requests
    /\ \E url \in Urls(router), method \in Methods :
        LET hit == Dispatch(router, <<>>, url, method, 1)
        IN  IF hit.found
            THEN \E session \in Sessions, allowRoute \in BOOLEAN,
                    baseMatch \in (IF models = EmptyObj THEN {FALSE} ELSE BOOLEAN) :
                    response' = [presenter(routes, hit, method, session, baseMatch, allowRoute)
                                    EXCEPT !.url = url]
            ELSE response' = [Response("notFound", hit, method, <<>>, 0, Undefined)
                                    EXCEPT !.url = url]
    /\ reqs' = [received |-> reqs.received + 1,
                pending |-> IF response'.status = "method"
                            THEN reqs.pending \cup {reqs.received + 1}
                            ELSE reqs.pending]
    /\ UNCHANGED <<fsys, next, routes, pc, todo, controller, router, models, budget,
                   env, app, sync, conf>>

\* the promise of a controller method settles.  Resolved, the presenter
\* answers with json, or merges config.assets and the data of the method
\* into the data for the template, adds the component scripts to data.js
\* when the data has components, and renders; rejected, the error handler
\* merges config.assets into its own data and renders the error page
Settle ==
    /\ reqs.pending # {}
    /\ \E id \in reqs.pending, outcome \in {"json", "render", "components", "rejected"} :
        LET data == MergeAssets(EmptyObj, Get(conf.global, "assets"))
            js == Arr(Val(Get(data.value, "js")) \o ComponentScripts)
        IN  /\ conf' = IF outcome = "components" /\ "js" \in data.shared
                       THEN [conf EXCEPT !.global =
                                Put(@, "assets", Put(Get(@, "assets"), "js", js))]
                       ELSE conf
            /\ reqs' = [reqs EXCEPT !.pending = @ \ {id}]
    /\ UNCHANGED <<fsys, next, routes, pc, todo, controller, router, models, budget, response,
                   env, app, sync>>

\* the application, not yet started, gets a module: getModule(name)
\* creates it with its app directory and adds it to the modules
GetModule ==
    /\ pc = "config"
    /\ Len(fsys) < MaxModules
    /\ \E apps \in NewModuleApps :
        fsys' = Append(fsys, [name |-> ModuleNames[Len(fsys) + 1], app |-> apps])
    /\ conf' = [conf EXCEPT !.modules = Append(@, ImmutableAppModule(ModuleNames[Len(fsys) + 1]))]
    /\ UNCHANGED <<next, routes, pc, todo, controller, router, models, budget, response,
                   env, app, sync, reqs>>

\* a module calls use(middleware): the arguments are pushed to config.use
Use ==
    /\ pc = "config"
    /\ Len(Val(Get(conf.global, "use"))) < MaxUse
    /\ \E m \in 1..Len(fsys) :
        conf' = [conf EXCEPT !.global =
                    Put(@, "use", Arr(Append(Val(Get(@, "use")), Middleware(fsys[m].name))))]
    /\ UNCHANGED <<fsys, next, routes, pc, todo, controller, router, models, budget, response,
                   env, app, sync, reqs>>

\* a module's start() is called, with no start() or stop() under way:
\* init() unless config.initialized is set
Start ==
    /\ pc \in {"config", "error", "stopped"}
    /\ fsys # <<>>
    /\ app.starts < MaxStarts
    /\ pc' = IF app.initialized THEN "start" ELSE "initDir"
    /\ next' = 1
    /\ todo' = <<>>
    /\ router' = IF app.initialized THEN router ELSE EmptyObj
    /\ app' = [app EXCEPT !.starts = @ + 1, !.rejected = "none"]
    /\ UNCHANGED <<fsys, routes, controller, models, budget, response,
                   env, sync, conf, reqs>>

\* reset leaves the server as it is
NeverStops(a) == FALSE

\* reset calls stop() for a server that has started
ResetStops(a) == a.server /\ a.started

\* reset(), with no start() or stop() under way: stop() for a started
\* server, then the default global configuration and a new express app
Reset ==
    /\ pc \in {"config", "listening", "stopped", "error"}
    /\ app.resets < MaxResets
    /\ IF ResetStops(app) /\ env.fault = "close"
       THEN /\ pc' = "error"
            /\ app' = Rejected(app, "reset")
            /\ UNCHANGED <<fsys, next, routes, todo, controller, router, models, sync, conf>>
       ELSE /\ pc' = "config"
            /\ app' = [NewApp(app.starts) EXCEPT !.bound = app.bound /\ ~ResetStops(app),
                                                 !.resets = app.resets + 1,
                                                 !.resetAt = app.starts,
                                                 !.exits = app.exits]
            /\ fsys' = <<>>
            /\ next' = 1
            /\ routes' = EmptyObj
            /\ todo' = <<>>
            /\ controller' = EmptyObj
            /\ router' = EmptyObj
            /\ models' = EmptyObj
            /\ sync' = [queue |-> <<>>, calls |-> <<>>, inflight |-> {}, resolved |-> <<>>]
            /\ conf' = DefaultConfig
    /\ UNCHANGED <<budget, response, env, reqs>>

\* ImmutableCoreController has built the paths of the controller of the
\* root node: any paths, each with a get method, in any order
BuildPaths ==
    /\ pc = "paths"
    /\ \E names \in SeqsUpTo(PathNames, MaxPaths) :
        /\ IsInjective(names)
        /\ controller' =
              Put(controller, <<>>,
                  PathsOf(EmptyObj,
                          [i \in 1..Len(names) |-> Action(names[i], "get", "all", "list")], 1))
    /\ pc' = "sort"
    /\ UNCHANGED <<fsys, next, routes, todo, router, models, budget, response,
                   env, app, sync, conf, reqs>>

\* initRoutes sorts the path names of the controller and adds the routes of
\* the paths to the router in the sorted order
SortPaths ==
    /\ pc = "sort"
    /\ router' = Put(router, <<>>,
                     Arr(Register(LayersOf(router, <<>>),
                                  ControllerLayers(Get(controller, <<>>)))))
    /\ pc' = "sorted"
    /\ UNCHANGED <<fsys, next, routes, todo, controller, models, budget, response,
                   env, app, sync, conf, reqs>>

\* stop(), called by the application on the listening server or by start()
\* with START_TEST_ONLY set: the callback of server.close, which clears
\* server and started, or rejects stop() with the error of close
Stop ==
    /\ pc \in {"listening", "stopping"}
    /\ IF env.fault = "close"
       THEN pc' = "error" /\ app' = Rejected(app, "stop")
       ELSE /\ pc' = IF pc = "stopping" THEN "exiting" ELSE "stopped"
            /\ app' = [app EXCEPT !.server = FALSE, !.started = FALSE, !.bound = FALSE]
    /\ UNCHANGED <<fsys, next, routes, todo, controller, router, models, budget, response,
                   env, sync, conf, reqs>>

\* the then() of the stop() that start() called: process.exit()
Exit ==
    /\ pc = "exiting"
    /\ pc' = "exited"
    /\ app' = [app EXCEPT !.exits = @ + 1]
    /\ UNCHANGED <<fsys, next, routes, todo, controller, router, models, budget, response,
                   env, sync, conf, reqs>>

\* start() and the requests, each run followed up to the answer of the
\* presenter or its call of the controller method
Next ==
    \/ InitDir \/ InitModule \/ InitRoutesNode \/ InitModel \/ SyncSettle \/ InitServices
    \/ CreateServer \/ Listening \/ Request

\* the same with the promises of the controller methods settling
NextRequests == Next \/ Settle

Spec == Init /\ [][Next]_vars
SpecMerge == InitMerge /\ [][Next]_vars
SpecRoutes == InitRoutes /\ [][Next]_vars
SpecScan == InitScan /\ [][Next]_vars
SpecStart == InitStart /\ [][Next]_vars
SpecRequests == InitRequests /\ [][NextRequests]_vars
SpecDirs == InitDirs /\ [][Next]_vars

\* start() and stop() called by the application
NextLifecycle == Next \/ Stop \/ Exit
NextExpress == Next \/ GetModule \/ Use \/ Start
NextRestart == Next \/ GetModule \/ Start \/ Stop \/ Reset
NextSort == BuildPaths \/ SortPaths
NextClaim == InitDir \/ InitModule \/ InitRoutesNode
SpecLifecycle == InitLifecycle /\ [][NextLifecycle]_vars
SpecExpress == InitExpress /\ [][NextExpress]_vars
SpecRestart == InitRestart /\ [][NextRestart]_vars
SpecSort == InitSort /\ [][NextSort]_vars
SpecClaim == InitClaim /\ [][NextClaim]_vars

NextConfig == Config
SpecConfig == InitConfig /\ [][NextConfig]_vars

(***************************************************************************)
(* What the modules declare, read from the app directories.                *)
(***************************************************************************)
DirIndex(dir, name) ==
    IF \E i \in 1..Len(dir.dirs) : dir.dirs[i][1] = name
    THEN CHOOSE i \in 1..Len(dir.dirs) : dir.dirs[i][1] = name
    ELSE 0

RECURSIVE HasDir(_, _)
HasDir(dir, rel) ==
    rel = <<>> \/ (DirIndex(dir, rel[1]) # 0 /\ HasDir(dir.dirs[DirIndex(dir, rel[1])][2], Tail(rel)))

RECURSIVE FilesOf(_, _)
FilesOf(dir, rel) ==
    IF rel = <<>> THEN dir.files
    ELSE IF DirIndex(dir, rel[1]) = 0 THEN <<>>
    ELSE FilesOf(dir.dirs[DirIndex(dir, rel[1])][2], Tail(rel))

\* the files module i holds at rel in its first app directory
ModuleHasDir(i, rel) == HasDir(fsys[i].app[1], rel)
ModuleFiles(i, rel) == FilesOf(fsys[i].app[1], rel)

\* the objects the files of a type at rel export, modules in the order of
\* registration and the files of a directory in the order of enumeration
RECURSIVE ExportsFrom(_, _, _)
ExportsFrom(i, rel, type) ==
    IF i > Len(fsys) THEN <<>>
    ELSE LET files == SelectSeq(ModuleFiles(i, rel), LAMBDA f : f.type = type)
         IN  [j \in 1..Len(files) |-> files[j].export] \o ExportsFrom(i + 1, rel, type)

ModuleExports(i, rel, type) ==
    LET files == SelectSeq(ModuleFiles(i, rel), LAMBDA f : f.type = type)
    IN  [j \in 1..Len(files) |-> files[j].export]

Declares(i, rel, key) ==
    \E j \in 1..Len(ModuleExports(i, rel, "controller")) :
        Has(ModuleExports(i, rel, "controller")[j], key)

\* the value of the last controller file of module i at rel that has key
DeclaredValue(i, rel, key) ==
    LET q == ModuleExports(i, rel, "controller")
        last == CHOOSE j \in 1..Len(q) :
                    Has(q[j], key) /\ \A m \in (j + 1)..Len(q) : ~Has(q[m], key)
    IN  Get(q[last], key)

Merged == pc \in {"initRoutes", "initModels", "start", "listen", "listening"}
NodeSet(tree) == {PostOrder(tree, <<>>)[i] : i \in 1..Len(PostOrder(tree, <<>>))}
ControllerAt(rel) == Get(NodeAt(routes, rel), "controller")

ScalarKeys == {"name", "json"}

\* C2: a scalar controller field declared at a relative path by a module and
\* declared again by a later module, the last to declare it, holds the later
\* module's value in the merged route tree
C2_LaterScalarWins ==
    Merged =>
        \A rel \in NodeSet(routes), key \in ScalarKeys, k \in 1..Len(fsys), j \in 1..Len(fsys) :
            ( /\ k < j
              /\ Declares(k, rel, key)
              /\ Declares(j, rel, key)
              /\ \A l \in (j + 1)..Len(fsys) : ~Declares(l, rel, key) )
            => Get(ControllerAt(rel), key) = DeclaredValue(j, rel, key)

(***************************************************************************)
(* Arrays and nested objects of the controller specs.                      *)
(***************************************************************************)
ArrayKeys == {"fields"}
ObjectKeys == {"get"}

\* the values the controller files at rel declare for key, in the order the
\* files are merged
DeclaredValues(rel, key) ==
    LET having == SelectSeq(ExportsFrom(1, rel, "controller"), LAMBDA e : Has(e, key))
    IN  [i \in 1..Len(having) |-> Get(having[i], key)]

MaxOf(S) == CHOOSE x \in S : \A y \in S : y <= x

\* the last of the declared arrays that has an entry at index i
LastWithIndex(arrays, i) ==
    arrays[MaxOf({m \in 1..Len(arrays) : Len(Val(arrays[m])) >= i})]

\* C3 (as the code has it): an array field declared by several modules or
\* files at one relative path is merged index by index: the merged array is
\* as long as the longest declared array, and its entry at an index is the
\* entry of the last declared array that has this index
C3_ArraysMergedByIndex ==
    Merged =>
        \A rel \in NodeSet(routes), key \in ArrayKeys :
            LET arrays == DeclaredValues(rel, key)
                merged == Get(ControllerAt(rel), key)
            IN  arrays # <<>> =>
                    /\ Tag(merged) = "a"
                    /\ Len(Val(merged)) = MaxOf({Len(Val(arrays[m])) : m \in 1..Len(arrays)})
                    /\ \A i \in 1..Len(Val(merged)) :
                           Val(merged)[i] = Val(LastWithIndex(arrays, i))[i]

\* two modules declare different arrays at one path and the initialization
\* has merged them
C3_TwoModulesDeclareArrays ==
    /\ Merged
    /\ \E rel \in NodeSet(routes), key \in ArrayKeys, k \in 1..Len(fsys), j \in 1..Len(fsys) :
        /\ k < j
        /\ Declares(k, rel, key)
        /\ Declares(j, rel, key)
        /\ \A l \in 1..Len(fsys) : Declares(l, rel, key) => l \in {k, j}
        /\ Len(Val(Get(ControllerAt(rel), key))) <
               Len(Val(DeclaredValue(k, rel, key))) + Len(Val(DeclaredValue(j, rel, key)))

\* the declared arrays one after the other
RECURSIVE Concatenation(_, _)
Concatenation(arrays, m) ==
    IF m > Len(arrays) THEN <<>> ELSE Val(arrays[m]) \o Concatenation(arrays, m + 1)

\* C3 (as the specification has it): the merged array is the concatenation
\* of the arrays declared at the path, in the order of the modules: as long
\* as all of them together, no earlier entry replaced
C3_ArraysConcatenated ==
    Merged =>
        \A rel \in NodeSet(routes), key \in ArrayKeys :
            DeclaredValues(rel, key) # <<>> =>
                Val(Get(ControllerAt(rel), key)) = Concatenation(DeclaredValues(rel, key), 1)

\* the nested keys the declared objects hold
NestedKeys(objects) ==
    UNION {{Keys(objects[m])[i] : i \in 1..Len(Keys(objects[m]))} : m \in 1..Len(objects)}

\* C4: an object field declared by several modules at one relative path is
\* merged recursively: the merged object holds every nested key any of them
\* declares, with the value of the last to declare that key, so a key only
\* the earlier module declares is kept
C4_NestedObjectsMerged ==
    Merged =>
        \A rel \in NodeSet(routes), key \in ObjectKeys :
            LET objects == DeclaredValues(rel, key)
                merged == Get(ControllerAt(rel), key)
            IN  objects # <<>> =>
                    /\ Tag(merged) = "o"
                    /\ {Keys(merged)[i] : i \in 1..Len(Keys(merged))} = NestedKeys(objects)
                    /\ \A sub \in NestedKeys(objects) :
                           Get(merged, sub) =
                               Get(objects[MaxOf({m \in 1..Len(objects) : Has(objects[m], sub)})], sub)

\* get = {method: X} of an earlier module and get = {extra: Y} of a later
\* one are merged into an object holding both
C4_MethodAndExtraKept ==
    /\ Merged
    /\ \E rel \in NodeSet(routes), k \in 1..Len(fsys), j \in 1..Len(fsys) :
        /\ k < j
        /\ Declares(k, rel, "get")
        /\ Declares(j, rel, "get")
        /\ DeclaredValue(k, rel, "get") = Obj(<< <<"method", Str("X")>> >>)
        /\ DeclaredValue(j, rel, "get") = Obj(<< <<"extra", Str("Y")>> >>)
        /\ Get(Get(ControllerAt(rel), "get"), "method") = Str("X")
        /\ Get(Get(ControllerAt(rel), "get"), "extra") = Str("Y")

(***************************************************************************)
(* Models of a directory.                                                  *)
(***************************************************************************)
\* the number of model definitions found at rel by the modules initApp has
\* been through, the first of them being module i
RECURSIVE ModelsFound(_, _)
ModelsFound(rel, i) ==
    IF i >= next THEN 0
    ELSE Len(ModuleExports(i, rel, "model")) + ModelsFound(rel, i + 1)

\* C5: two model definitions found at one relative path end the
\* initialization with an error
C5_TwoModelsRejected ==
    \A rel \in NodeSet(routes) : ModelsFound(rel, 1) >= 2 => pc = "error"

(***************************************************************************)
(* The controllers, the routers and the responses.                         *)
(***************************************************************************)
\* the nodes initRoutes is through with
RoutedNodes == {rel \in NodeSet(routes) : Has(controller, rel)}
PathsAt(rel) == Get(controller, rel)
TemplatesAt(rel) == Get(NodeAt(routes, rel), "templates")
TemplateNamesAt(rel) == {Keys(TemplatesAt(rel))[i] : i \in 1..Len(Keys(TemplatesAt(rel)))}
RolesAt(rel, n) == Get(Get(TemplatesAt(rel), n), "role")
PathSet(rel) == {Keys(PathsAt(rel))[i] : i \in 1..Len(Keys(PathsAt(rel)))}
SpecsAt(rel, path, method) ==
    IF Has(PathsAt(rel), path) /\ Has(Get(PathsAt(rel), path), method)
    THEN Val(Get(Get(PathsAt(rel), path), method))
    ELSE <<>>
RouteLayers(rel) == SelectSeq(LayersOf(router, rel), LAMBDA l : l.kind = "route")
Answered == response.status \notin {"none", "notFound"}
\* the part of the requested url below the node that answered
UrlBelow == SubSeq(response.url, Len(response.rel) + 1, Len(response.url))
IsLiteral(path) == \A i \in 1..Len(path) : path[i] \notin ColonSegments
\* an explicit action of the node's controller uses the template name n
ExplicitFor(rel, n) ==
    \E path \in PathSet(rel), method \in Methods :
        \E i \in 1..Len(SpecsAt(rel, path, method)) :
            /\ SpecsAt(rel, path, method)[i].explicit
            /\ SpecsAt(rel, path, method)[i].methodName = n
HasRole(roles, r) == \E i \in 1..Len(roles) : roles[i] = r

\* C1: in every router the routes of the literal paths are registered before
\* the routes of the paths with a placeholder, and a request whose url is a
\* literal path the controller handles for the method is never answered by
\* a placeholder route
C1_LiteralBeforePlaceholder ==
    /\ \A rel \in RoutedNodes :
        \A i \in 1..Len(RouteLayers(rel)), j \in 1..Len(RouteLayers(rel)) :
            (i < j /\ IsLiteral(RouteLayers(rel)[j].path)) => IsLiteral(RouteLayers(rel)[i].path)
    /\ (Answered /\ ~IsLiteral(response.path)) =>
            ~(\E path \in PathSet(response.rel) :
                /\ IsLiteral(path)
                /\ path = UrlBelow
                /\ SpecsAt(response.rel, path, response.method) # <<>>)

\* the controller has a placeholder path ahead of a literal path, both with
\* the requested method, and the request for the literal path is answered by
\* the literal route
C1_LiteralAnswers ==
    /\ Answered
    /\ IsLiteral(response.path)
    /\ response.path = UrlBelow
    /\ \E i \in 1..Len(Keys(PathsAt(response.rel))), j \in 1..Len(Keys(PathsAt(response.rel))) :
        /\ i < j
        /\ ~IsLiteral(Keys(PathsAt(response.rel))[i])
        /\ Match(Keys(PathsAt(response.rel))[i], UrlBelow)
        /\ SpecsAt(response.rel, Keys(PathsAt(response.rel))[i], response.method) # <<>>
        /\ Keys(PathsAt(response.rel))[j] = response.path

\* the specs created for templates without controller, each with the path
\* and the method it is under
DefaultSpecs(rel) ==
    UNION {{<<path, method, SpecsAt(rel, path, method)[i]>> :
                i \in {k \in 1..Len(SpecsAt(rel, path, method)) :
                          ~SpecsAt(rel, path, method)[k].explicit}} :
            path \in PathSet(rel), method \in Methods}

\* a node has for the name n the template of all and the template of one
\* other role, and no explicit action uses n
TwoBareTemplates(rel, n) ==
    /\ n \in TemplateNamesAt(rel)
    /\ Has(RolesAt(rel, n), "all")
    /\ Len(Keys(RolesAt(rel, n))) = 2
    /\ ~ExplicitFor(rel, n)

\* C6: for the templates foo and foo.bar of a node without explicit action
\* using foo, exactly two specs are created, both for get on '/foo', one of
\* role all and one of role bar, each with its own template path, and no
\* spec is created for them on another path or method
C6_TwoDefaultSpecs ==
    \A rel \in RoutedNodes : \A n \in TemplateNamesAt(rel) \ {"index"} :
        TwoBareTemplates(rel, n) =>
            LET roles == RolesAt(rel, n)
                paths == {Get(roles, Keys(roles)[k]) : k \in 1..2}
                created == SelectSeq(SpecsAt(rel, <<n>>, "get"),
                                     LAMBDA spec : ~spec.explicit /\ spec.template \in paths)
            IN  /\ Len(created) = 2
                /\ \A k \in 1..2 : \E i \in 1..2 :
                        /\ created[i].role = Keys(roles)[k]
                        /\ created[i].template = Get(roles, Keys(roles)[k])
                /\ \A d \in DefaultSpecs(rel) :
                        d[3].template \in paths => (d[1] = <<n>> /\ d[2] = "get")

\* a node with the templates foo and foo.bar and no action using foo is
\* through initRoutes
C6_FooAndFooBar ==
    \E rel \in RoutedNodes :
        /\ TwoBareTemplates(rel, "foo")
        /\ Has(RolesAt(rel, "foo"), "bar")
        /\ Len(SpecsAt(rel, <<"foo">>, "get")) >= 2

\* C7: the spec created for a template without controller is for get on '/'
\* when the template is named index and on '/' followed by the name
\* otherwise
C7_IndexIsRoot ==
    \A rel \in RoutedNodes : \A d \in DefaultSpecs(rel) :
        /\ d[2] = "get"
        /\ d[1] = IF Val(d[3].template)[2][1] = "index" THEN <<>>
                  ELSE <<Val(d[3].template)[2][1]>>

\* a node has a spec created for the template index and one for another
C7_IndexAndNamed ==
    \E rel \in RoutedNodes : \E d \in DefaultSpecs(rel), e \in DefaultSpecs(rel) :
        /\ Val(d[3].template)[2][1] = "index"
        /\ d[1] = <<>>
        /\ Val(e[3].template)[2][1] = "foo"
        /\ e[1] = <<"foo">>

\* C8: a get request for the path of a template name that has the template
\* of all and the template of a role r, and no explicit action, renders the
\* template of r for a session that has the role r and the template of all
\* for a session that has not, whatever the order of the files
C8_RoleTemplateServed ==
    (response.status = "render" /\ response.method = "get") =>
        \A n \in TemplateNamesAt(response.rel) :
            ( /\ TwoBareTemplates(response.rel, n)
              /\ response.path = IF n = "index" THEN <<>> ELSE <<n>> ) =>
                \A k \in 1..2 :
                    LET roles == RolesAt(response.rel, n)
                        r == Keys(roles)[k]
                    IN  r # "all" =>
                            response.template =
                                IF HasRole(response.roles, r) THEN Get(roles, r)
                                ELSE Get(roles, "all")

\* C9: when every explicit action using the template name n has the role r
\* and the node has the template of r and the template of all for n, the
\* template of all is left without controller and gets its own get spec,
\* also when a get and a post action use n
C9_AllTemplateStaysBare ==
    \A rel \in RoutedNodes : \A n \in TemplateNamesAt(rel), r \in Roles \ {"all"} :
        ( /\ Has(RolesAt(rel, n), r)
          /\ Has(RolesAt(rel, n), "all")
          /\ ExplicitFor(rel, n)
          /\ \A path \in PathSet(rel), method \in Methods :
                \A i \in 1..Len(SpecsAt(rel, path, method)) :
                    ( /\ SpecsAt(rel, path, method)[i].explicit
                      /\ SpecsAt(rel, path, method)[i].methodName = n )
                    => SpecsAt(rel, path, method)[i].role = r ) =>
            \E d \in DefaultSpecs(rel) :
                /\ d[3].role = "all"
                /\ d[3].template = Get(RolesAt(rel, n), "all")

\* C10: in every array of role specs the specs of the explicit actions come
\* before the specs created for templates, and the presenter selects an
\* explicit spec whenever one is eligible for the roles of the session
C10_ExplicitFirst ==
    /\ \A rel \in RoutedNodes : \A path \in PathSet(rel), method \in Methods :
        \A i \in 1..Len(SpecsAt(rel, path, method)), j \in 1..Len(SpecsAt(rel, path, method)) :
            (i < j /\ SpecsAt(rel, path, method)[j].explicit)
                => SpecsAt(rel, path, method)[i].explicit
    /\ ( /\ Answered
         /\ response.index > 0
         /\ \E i \in 1..Len(response.specs) :
                /\ response.specs[i].explicit
                /\ (response.specs[i].role = "all" \/ HasRole(response.roles, response.specs[i].role)) )
        => response.specs[response.index].explicit

\* a request is answered by a route that has an explicit spec and a created
\* spec, both eligible for the session, and the explicit one is selected
C10_ExplicitSelected ==
    /\ Answered
    /\ response.index > 0
    /\ response.specs[response.index].explicit
    /\ \E i \in 1..Len(response.specs) :
        /\ ~response.specs[i].explicit
        /\ (response.specs[i].role = "all" \/ HasRole(response.roles, response.specs[i].role))

(***************************************************************************)
(* The scan of the app directories.                                        *)
(***************************************************************************)
\* the tree initAppDir builds from the first app directory of module i
FirstScan(i) == initAppDir(EmptyObj, fsys[i].name, <<>>, Paths(fsys[i].app[1], <<>>, 0))

\* config.routes after the first n modules, had every module only its
\* first app directory
RECURSIVE MergedFirstScans(_)
MergedFirstScans(n) ==
    IF n = 0 THEN EmptyObj
    ELSE CHOOSE merged \in {Merge(before, scan) : before \in {MergedFirstScans(n - 1)},
                                                  scan \in {FirstScan(n).tree}} : TRUE

RECURSIVE HasInvalidName(_)
HasInvalidName(dir) ==
    \/ \E i \in 1..Len(dir.files) : dir.files[i].type = "template" /\ Len(dir.files[i].parts) > 2
    \/ \E i \in 1..Len(dir.dirs) : HasInvalidName(dir.dirs[i][2])

\* C12: the scan of an app directory comes to its end for every directory
\* structure, one with a sub-directory that is a link to an ancestor
\* included, the loaded guard stopping the recursion: the scan of a module
\* fails only when one of its template file names is invalid
C12_LoadedGuardStopsLinks ==
    pc = "error" => \E j \in 1..Len(fsys[next].app) : HasInvalidName(fsys[next].app[j])

(***************************************************************************)
(* Controller paths and sub-directories.                                   *)
(***************************************************************************)
\* the route layers of a node whose path begins with the name of one of the
\* node's sub-directories
OnChildSegment(rel) ==
    {i \in 1..Len(LayersOf(router, rel)) :
        /\ LayersOf(router, rel)[i].kind = "route"
        /\ LayersOf(router, rel)[i].path # <<>>
        /\ LayersOf(router, rel)[i].path[1] \in ChildNames(NodeAt(routes, rel))}

\* C13: a controller path whose first segment is the name of a
\* sub-directory of the node makes the initialization fail: no router holds
\* a route for such a path next to the router of the sub-directory
C13_NoPathOnChildSegment ==
    \A rel \in RoutedNodes : OnChildSegment(rel) = {}

(***************************************************************************)
(* Template file names.                                                    *)
(***************************************************************************)
RECURSIVE HasLink(_)
HasLink(dir) ==
    IsLink(dir) \/ \E i \in 1..Len(dir.dirs) : HasLink(dir.dirs[i][2])

\* the template files module i holds at rel in its first app directory
TemplateFilesOf(i, rel) ==
    {ModuleFiles(i, rel)[j].parts :
        j \in {k \in 1..Len(ModuleFiles(i, rel)) : ModuleFiles(i, rel)[k].type = "template"}}

\* C14: a template file whose name has two or more dots makes the scan of
\* its module fail, so that no later module is scanned and initialized
\* stays false; a name without dot is registered under the role all and a
\* name with one dot under the role after the dot, and a scan fails for a
\* template file name only when the name has two or more dots
C14_TemplateNameParts ==
    /\ \A i \in 1..Len(fsys) :
            HasInvalidName(fsys[i].app[1]) => (next <= i /\ ~app.initialized)
    /\ \A i \in 1..(next - 1) : \A rel \in NodeSet(routes) :
            \A parts \in TemplateFilesOf(i, rel) :
                /\ Len(parts) \in {1, 2}
                /\ Get(RolesAt(rel, parts[1]), IF Len(parts) = 1 THEN "all" ELSE parts[2])
                        = TemplatePath(rel, parts)
    /\ (pc = "error" /\ ~HasLink(fsys[next].app[1])) => HasInvalidName(fsys[next].app[1])

\* the templates foo.bar and index of the first module are registered, and
\* the scan of the second module has failed for the name foo.bar.baz
C14_TwoDotsRejected ==
    /\ pc = "error"
    /\ next = 2
    /\ TemplateFilesOf(1, <<>>) = { <<"foo", "bar">>, <<"index">> }
    /\ Get(RolesAt(<<>>, "foo"), "bar") = TemplatePath(<<>>, <<"foo", "bar">>)
    /\ Get(RolesAt(<<>>, "index"), "all") = TemplatePath(<<>>, <<"index">>)
    /\ TemplateFilesOf(2, <<>>) = { <<"foo", "bar", "baz">> }
    /\ ~app.initialized

(***************************************************************************)
(* Configuration options.                                                  *)
(***************************************************************************)
\* the keys of the default global and the default module configuration
GlobalKeys == {Keys(DefaultGlobalConfig)[i] : i \in 1..Len(Keys(DefaultGlobalConfig))}
ModuleKeys == {Keys(DefaultModuleConfig)[i] : i \in 1..Len(Keys(DefaultModuleConfig))}

\* C15: config(args) takes the keys of the default global and of the
\* default module configuration, those with a default of false or undefined
\* included, and throws for every other key; a global key changes the
\* global config and a module key the config of the calling module only
C15_ExactlyDefaultKeys ==
    conf.caller # 0 =>
        /\ conf.thrown <=> \E i \in 1..Len(conf.args) : conf.args[i][1] \notin GlobalKeys \cup ModuleKeys
        /\ \A m \in 1..Len(conf.modules) :
                m # conf.caller => conf.modules[m] = NewConfig(conf.build).modules[m]
        /\ ~conf.thrown =>
                /\ conf.global
                        = MergeWith(DefaultGlobalConfig,
                                    Obj(SelectSeq(conf.args, LAMBDA a : a[1] \in GlobalKeys)))
                /\ conf.modules[conf.caller]
                        = MergeWith(NewConfig(conf.build).modules[conf.caller],
                                    Obj(SelectSeq(conf.args, LAMBDA a : a[1] \in ModuleKeys)))

(***************************************************************************)
(* Initialization of the models and start.                                 *)
(***************************************************************************)
IsPrefix(p, q) == Len(p) <= Len(q) /\ \A i \in 1..Len(p) : p[i] = q[i]

\* C16: during initModels at most one sync() is in flight; the models are
\* synchronized in the order of the model register, the sync of a model is
\* called only when the syncs called before it have resolved, and after a
\* rejected sync no further model is synchronized
C16_OneSyncAtATime ==
    /\ Cardinality(sync.inflight) <= 1
    /\ IsPrefix(sync.calls, Keys(models))
    /\ IsPrefix(sync.resolved, sync.calls)
    /\ Len(sync.calls) <= Len(sync.resolved) + 1
    /\ \A name \in sync.inflight : name = sync.calls[Len(sync.calls)]
    /\ (sync.calls # <<>> /\ ~env.noSync) => sync.calls \o sync.queue = Keys(models)
    /\ (Len(sync.calls) > Len(sync.resolved) /\ sync.inflight = {}) => pc = "error"

\* the sync of the second of two models is in flight, the first resolved
C16_SecondSyncInFlight ==
    /\ Len(Keys(models)) = 2
    /\ sync.resolved = <<Keys(models)[1]>>
    /\ sync.inflight = {Keys(models)[2]}

\* C17: when a step of init fails (the set up of the directories, the
\* construction of the route tree, the sync of a model, the initialization
\* of the services), start() rejects with its error, no later step of init
\* has run, initialized is false, no server is created and started is false
C17_FailedInitStopsStart ==
    /\ app.rejected \in InitSteps =>
            /\ pc = "error"
            /\ ~app.initialized /\ ~app.server /\ ~app.started
            /\ app.rejected = "initDir" => (next = 1 /\ routes = EmptyObj)
            /\ app.rejected \in {"initDir", "initApp"} =>
                    (router = EmptyObj /\ models = EmptyObj /\ sync.calls = <<>>)
            /\ app.rejected = "initModels" =>
                    (env.fault = "database" \/ Len(sync.calls) = Len(sync.resolved) + 1)
    /\ env.fault \in {"initDir", "services"} => ~app.initialized
    /\ (env.fault = "database" /\ models # EmptyObj) => ~app.initialized
    /\ \A i \in 1..Len(fsys) : initModule(fsys[i]).err => (next <= i /\ ~app.initialized)
    /\ app.started => app.server
    /\ app.server => app.initialized
    /\ app.initialized =>
            /\ next = Len(fsys) + 1 /\ todo = <<>>
            /\ sync.queue = <<>> /\ sync.inflight = {} /\ sync.resolved = sync.calls

\* the sync of the second model has rejected, the first one resolved
C17_SecondSyncRejected ==
    /\ pc = "error"
    /\ app.rejected = "initModels"
    /\ Len(sync.resolved) = 1
    /\ Len(sync.calls) = 2
    /\ ~app.initialized /\ ~app.server /\ ~app.started

(***************************************************************************)
(* Order of the layers of a router.                                        *)
(***************************************************************************)
\* the nodes below rel in the merged tree
Descendants(rel) ==
    {d \in NodeSet(routes) : Len(d) > Len(rel) /\ SubSeq(d, 1, Len(rel)) = rel}

Mounted(rel) ==
    \E i \in 1..Len(LayersOf(router, SubSeq(rel, 1, Len(rel) - 1))) :
        /\ LayersOf(router, SubSeq(rel, 1, Len(rel) - 1))[i].kind = "use"
        /\ LayersOf(router, SubSeq(rel, 1, Len(rel) - 1))[i].segment = rel[Len(rel)]

\* C18: in initRoutes the routers of the children of a node are built and
\* mounted on the router of the node before a path of the node's own
\* controller is registered on it, at every depth: a node that has its
\* routes has every node below it built and mounted, and in every router
\* the mounts precede the routes
C18_ChildrenMountedFirst ==
    /\ \A rel \in RoutedNodes : \A d \in Descendants(rel) : d \in RoutedNodes /\ Mounted(d)
    /\ \A rel \in NodeSet(routes) :
            \A i \in 1..Len(LayersOf(router, rel)), j \in 1..Len(LayersOf(router, rel)) :
                (LayersOf(router, rel)[i].kind = "route" /\ LayersOf(router, rel)[j].kind = "use")
                    => j < i

\* the router of widgets holds the mount of parts and after it the route of
\* its template foo, and parts has the route of its template index
C18_MountThenRoute ==
    /\ pc = "listening"
    /\ <<"widgets", "parts">> \in RoutedNodes
    /\ Len(RouteLayers(<<"widgets", "parts">>)) = 1
    /\ Len(LayersOf(router, <<"widgets">>)) = 2
    /\ LayersOf(router, <<"widgets">>)[1] = UseLayer("parts")
    /\ LayersOf(router, <<"widgets">>)[2].kind = "route"

(***************************************************************************)
(* The role specs of the routes.                                           *)
(***************************************************************************)
\* C19: after initialization every route of every router has at least one
\* role spec, every role spec has a controller method or a template
\* reference, and no request comes to a presenter that has neither a
\* method to call nor a template to render
C19_EverySpecResolved ==
    /\ \A rel \in RoutedNodes : \A i \in 1..Len(RouteLayers(rel)) :
            /\ RouteLayers(rel)[i].specs # <<>>
            /\ \A k \in 1..Len(RouteLayers(rel)[i].specs) :
                    \/ RouteLayers(rel)[i].specs[k].method
                    \/ defined(TemplateOf(RouteLayers(rel)[i].specs[k]))
    /\ response.status # "error"

(***************************************************************************)
(* Requests and the state built by the initialization.                     *)
(***************************************************************************)
\* C20: with the initialization completed, no step of the handling of a
\* request, the settling of a controller method and the error handler
\* included, changes the merged route tree, the controller paths or the
\* templates of a node, the routers, or the global config with its assets
C20_RequestsLeaveStateUnchanged ==
    [][pc = "listening" =>
        /\ routes' = routes
        /\ controller' = controller
        /\ router' = router
        /\ conf' = conf]_vars

\* the second request has been answered with a template while the
\* controller method called for the first is pending
C20_TwoRequestsInterleaved ==
    /\ reqs.received = 2
    /\ reqs.pending = {1}
    /\ response.status = "render"

(***************************************************************************)
(* Directories that do not exist.                                          *)
(***************************************************************************)
HasMissing(kinds) ==
    \E i \in 1..Len(fsys) : \E j \in 1..Len(fsys[i].app) :
        IsMissing(fsys[i].app[j]) /\ fsys[i].app[j].missing \in kinds

\* C21: no directory of a module's dir configuration that does not exist
\* on the disk ends the initialization: initDir is never the step start()
\* is rejected for, and with initDir done the module has the directories
\* that exist and no entry for the missing one
C21_MissingDirNotFatal ==
    /\ app.rejected # "initDir"
    /\ pc # "initDir" => ~HasMissing({"configured", "default"})

Present(route, rel, file) ==
    IF file.type = "template"
    THEN Get(Get(Get(Get(route, "templates"), file.parts[1]), "role"),
             IF Len(file.parts) = 1 THEN "all" ELSE file.parts[2])
            = TemplatePath(rel, file.parts)
    ELSE \A k \in 1..Len(Keys(file.export)) :
            Has(Get(route, file.type), Keys(file.export)[k])

\* C22: with the route tree merged, every controller, model and template
\* file that a second or later app directory of a module holds at a
\* relative path is in the node of that path
C22_EveryAppDirContributes ==
    Merged =>
        \A i \in 1..Len(fsys) : \A j \in 2..Len(fsys[i].app) :
            \A rel \in {<<>>, <<"widgets">>, <<"widgets", "parts">>} :
                \A k \in 1..Len(FilesOf(fsys[i].app[j], rel)) :
                    Present(NodeAt(routes, rel), rel, FilesOf(fsys[i].app[j], rel)[k])

(***************************************************************************)
(* The order of the handlers of the express app.                           *)
(***************************************************************************)
DefaultKinds == <<"static", "requestId", "json", "urlencoded", "cookieParser", "morgan">>

KindRank(kind) ==
    CASE kind = "custom" -> 2
      [] kind = "router" -> 3
      [] kind = "errorHandler" -> 4
      [] OTHER -> 1

\* the position of the module of that name among the instantiated modules
ModuleIndex(moduleName) == CHOOSE m \in 1..Len(fsys) : fsys[m].name = moduleName

\* C24: the handlers of the express app are the default middleware in its
\* fixed order, then the custom middleware in the order in which the modules
\* that defined them were instantiated, then the router of the route tree,
\* then the error handler: no handler of a later group stands before one of
\* an earlier group, and once the routes are initialized the router and the
\* error handler are the last two handlers.
C24_HandlersInFixedOrder ==
    LET stack == app.express
        defaults == SelectSeq(stack, LAMBDA h : KindRank(h.kind) = 1)
    IN  /\ \A i, j \in 1..Len(stack) :
            i < j => /\ KindRank(stack[i].kind) <= KindRank(stack[j].kind)
                     /\ (stack[i].kind = "custom" /\ stack[j].kind = "custom")
                        => ModuleIndex(stack[i].by) <= ModuleIndex(stack[j].by)
        /\ stack # <<>> =>
              [h \in 1..Len(defaults) |-> defaults[h].kind]
              = SelectSeq(DefaultKinds,
                          LAMBDA k : k # "morgan" \/ ToBoolean(Get(conf.global, "log")))
        /\ pc \in {"initModels", "start", "listen", "listening"} =>
              /\ Len(stack) >= 2
              /\ stack[Len(stack) - 1].kind = "router"
              /\ stack[Len(stack)].kind = "errorHandler"
              /\ \A i \in 1..(Len(stack) - 2) : KindRank(stack[i].kind) <= 2

(***************************************************************************)
(* reset() between two starts.                                             *)
(***************************************************************************)
\* the fault of the environment that makes a step of start() or reset() fail
FaultOf(step) ==
    CASE step = "initModels" -> "sync"
      [] step = "listen" -> "listen"
      [] step \in {"stop", "reset"} -> "close"
      [] OTHER -> "leftover"

RouterHandlers == SelectSeq(app.express, LAMBDA h : h.kind = "router")

IteratedPaths ==
    LET layers == LayersOf(router, <<>>)
    IN  [i \in 1..Len(layers) |-> layers[i].path]

C27_InitRunsAtMostOnce ==
    app.resets = 0 =>
        /\ IsInjective(app.express)
        /\ Len(RouterHandlers) <= 1

(***************************************************************************)
(* Declared names and generated defaults.                                  *)
(***************************************************************************)
DefaultedKeys == {"name", "path"}

\* C28: a controller name or path that a module declares at a relative path
\* is kept in the merged route tree when the later modules that have a
\* directory at that path declare none there: the generated default of a
\* later module does not replace it.
C28_DeclaredNameSurvivesDefaults ==
    Merged =>
        \A rel \in NodeSet(routes), key \in DefaultedKeys, k \in 1..Len(fsys) :
            ( /\ Declares(k, rel, key)
              /\ \E j \in (k + 1)..Len(fsys) : ModuleHasDir(j, rel)
              /\ \A l \in (k + 1)..Len(fsys) : ~Declares(l, rel, key) )
            => Get(ControllerAt(rel), key) = DeclaredValue(k, rel, key)

(***************************************************************************)
(* config() that throws.                                                   *)
(***************************************************************************)
\* C29: when config(args) throws for an invalid key, the call has changed
\* neither the global configuration nor the configuration of any module:
\* the valid keys before the invalid one are not applied.
C29_ThrowingConfigChangesNothing ==
    conf.thrown =>
        /\ conf.global = DefaultGlobalConfig
        /\ conf.modules = NewConfig(conf.build).modules

(***************************************************************************)
(* The templates left without controller.                                  *)
(***************************************************************************)
\* the role specs of the root controller, in the order of enumeration
RootSpecs == SpecsOfPaths(Get(controller, <<>>), 1)
ExplicitSpecs == SelectSeq(RootSpecs, LAMBDA spec : spec.explicit)

\* the (role, template) pairs of the get actions made for templates
SynthesizedPairs ==
    {<<RootSpecs[i].role, RootSpecs[i].template>> :
        i \in {k \in 1..Len(RootSpecs) : ~RootSpecs[k].explicit}}

\* the (role, template) pairs of the templates left in bareTemplates
UnclaimedPairs(bareTemplates) ==
    UNION {{<<Val(Get(Val(bareTemplates)[i][2], "role"))[j][1],
              Val(Get(Val(bareTemplates)[i][2], "role"))[j][2]>> :
                j \in 1..Len(Val(Get(Val(bareTemplates)[i][2], "role")))} :
           i \in 1..Len(Val(bareTemplates))}

Orders(n) == {f \in [1..n -> 1..n] : \A i, j \in 1..n : f[i] = f[j] => i = j}

\* C30: the templates left unclaimed at a node, and with them the get
\* actions made for templates, are the same for every order in which the
\* explicit role specs of the controller are enumerated.
C30_UnclaimedIndependentOfOrder ==
    pc = "initModels" =>
        LET templates == Get(NodeAt(routes, <<>>), "templates")
            specs == ExplicitSpecs
        IN  \A f \in Orders(Len(specs)) :
                UnclaimedPairs(ClaimTemplates(templates, templates,
                                              [i \in 1..Len(specs) |-> specs[f[i]]], 1))
                = SynthesizedPairs

\* two specs of role bar and one of role all use the templates foo.hbs and
\* foo.bar.hbs, and the spec of role all is enumerated between the two
C30_ThreeSpecsTwoTemplates ==
    /\ pc = "initModels"
    /\ [i \in 1..Len(ExplicitSpecs) |-> ExplicitSpecs[i].role] = <<"bar", "all", "bar">>
    /\ \A i \in 1..Len(ExplicitSpecs) : ExplicitSpecs[i].methodName = "foo"
    /\ Len(Val(Get(Get(Get(NodeAt(routes, <<>>), "templates"), "foo"), "role"))) = 2
    /\ SynthesizedPairs = {}

====
